---- MODULE Spec2Model ----
(***************************************************************************)
(* Model of the retry / error-classification pipeline and of the secure    *)
(* logger of sap-odata-explorer (src/src/lib/error-handler.ts,             *)
(* src/src/lib/secure-logger.ts, src/src/lib/config.ts).                   *)
(*                                                                         *)
(* Spec      one executeWithRetry invocation of an ErrorHandler built on a *)
(*           SecureLogger: the operation closure settles each attempt      *)
(*           with a value or a raised failure chosen by the environment.   *)
(* SpecMask  SecureLogger.maskSensitiveData applied to object graphs       *)
(*           (nested objects and arrays, shared and cyclic references).    *)
(***************************************************************************)
EXTENDS Integers, Sequences, FiniteSets, TLC

(***************************************************************************)
(* Bounds of the model.                                                    *)
(***************************************************************************)
\* the largest configured maxRetries
MaxRetriesBound == 3
\* the largest configured backoffMultiplier
MaxMultiplier == 3
\* the largest attempt number calculateDelay is evaluated at as a pure function
MaxAttemptArg == 5
\* the longest chain of wrappers around the masked object graphs of SpecMask
MaxSpine == 12

(***************************************************************************)
(* JavaScript values.                                                      *)
(***************************************************************************)
\* a number that may be NaN (parseInt of a non-numeric string)
Num(n) == [nan |-> FALSE, v |-> n]
NaN == [nan |-> TRUE, v |-> 0]

\* a <= b and a < b of JavaScript, for an integer a and a possibly-NaN b:
\* every comparison with NaN is false
LeqJS(a, b) == ~b.nan /\ a <= b.v
LessJS(a, b) == ~b.nan /\ a < b.v

Min(a, b) == IF a <= b THEN a ELSE b

RECURSIVE Pow(_, _)
\* Math.pow(base, e) for integers, e >= 0
Pow(base, e) == IF e = 0 THEN 1 ELSE base * Pow(base, e - 1)

(***************************************************************************)
(* Failure values raised by the operation closure.  A raised object has an *)
(* identity (id: the number of the call that raised it), an optional       *)
(* network code, an optional HTTP response with a status, and a message    *)
(* that may be empty.  The closure may also raise null or undefined.       *)
(***************************************************************************)
NetworkCodes == {"ECONNREFUSED", "ETIMEDOUT", "ENOTFOUND", "ENETUNREACH"}
\* "" stands for an error without a code property
ErrorCodes == NetworkCodes \cup {"ECONNRESET", ""}
\* HTTP statuses a response may carry
Statuses == {200, 399, 400, 401, 403, 404, 422, 429, 499, 500, 503}
\* "" stands for a missing or empty message
Messages == {"", "boom"}

ErrorObject(id, code, hasResponse, status, message) ==
    [tag |-> "object", id |-> id, code |-> code, hasResponse |-> hasResponse,
     status |-> status, message |-> message]

Nullish(tag) ==
    [tag |-> tag, id |-> 0, code |-> "", hasResponse |-> FALSE,
     status |-> 0, message |-> ""]

\* the value of `lastError` before any attempt has failed
null == Nullish("null")
undefined == Nullish("undefined")

\* the TypeError the runtime raises when a property of null or undefined is read
TypeErrorValue ==
    [tag |-> "TypeError", id |-> 0, code |-> "", hasResponse |-> FALSE,
     status |-> 0, message |-> "Cannot read properties of null"]

\* the raised objects with identity `id`, a code among `codes` and either no
\* response or a response with a status among `statuses`
ErrorObjects(id, codes, statuses) ==
    {ErrorObject(id, c, FALSE, 0, m) : c \in codes, m \in Messages}
    \cup {ErrorObject(id, c, TRUE, s, m) :
              c \in codes, s \in statuses, m \in Messages}

\* the failure values call number `id` of the closure may raise in Spec: one
\* code and some statuses of each class, and the raised null and undefined
RaisedValues(id) ==
    ErrorObjects(id, {"ETIMEDOUT", "ECONNRESET", ""},
                 {302, 401, 403, 404, 429, 500})
    \cup {null, undefined}

IsNullish(error) == error.tag \in {"null", "undefined"}

(***************************************************************************)
(* State.                                                                  *)
(***************************************************************************)
VARIABLES
    config,     \* ErrorHandler.config: maxRetries, delayMs, backoffMultiplier
    logLevel,   \* SecureLogger.config.level
    pc,         \* where the executeWithRetry invocation is
    attempt,    \* the loop variable of executeWithRetry
    lastError,  \* the local lastError of executeWithRetry
    calls,      \* how many times the operation closure has been invoked
    raised,     \* what the latest settled attempt raised (null: nothing yet)
    delays,     \* the delays slept so far, in order
    timer,      \* the delay of the pending setTimeout (while sleeping)
    outcome,    \* the value returned or thrown by the invocation
    console,    \* the entries written to the console streams, in order
    errorLog,   \* the entries appended to the error log file, in order
    probe,      \* SpecPure: the latest application of a pure function
    maskFields, \* SpecMask: SecureLogger.config.maskFields
    heap,       \* SpecMask: the objects and arrays of the value to mask
    root,       \* SpecMask: the value handed to maskSensitiveData
    seenObjects, \* SpecMask: SecureLogger.seenObjects
    masked,     \* SpecMask: the value maskSensitiveData returned
    remasked,   \* SpecMask: what masking the returned value again returned
    repeated,   \* SpecMask: how masking `root` once more ended
    maskCalls,  \* SpecMask: the top-level maskSensitiveData calls made
    logQueue,   \* SpecLog: the logger calls the host program makes, in order
    logReturns, \* SpecLog: how the calls made so far ended and how their
                \* append to the error log file went, in order
    cliRun,     \* SpecCli: the entry point started and how its run goes
    exitCode,   \* SpecCli: the code handed to process.exit (NoExit: none yet)
    strCall     \* SpecText: a string function of SecureLogger applied to a
                \* text, with what it returned

\* the variables of the executeWithRetry invocation and its logger
execVars == <<config, logLevel, pc, attempt, lastError, calls, raised, delays,
              timer, outcome, console, errorLog>>
\* the variables of SpecMask
maskVars == <<maskFields, heap, root, seenObjects, masked, remasked, repeated,
              maskCalls>>
\* the variables the actions of Spec leave alone
\* the variables of SpecLog beside the logger's own
logVars == <<logQueue, logReturns>>
\* the variables of SpecCli
cliVars == <<cliRun, exitCode>>
\* the variable of SpecText
textVars == <<strCall>>
otherVars == <<probe, maskVars, logVars, cliVars, textVars>>

vars == <<execVars, otherVars>>

(***************************************************************************)
(* ErrorHandler: the pure parts.                                           *)
(***************************************************************************)
MAX_DELAY_MS == 30000

\* shouldRetry with the 429 test left out
shouldRetry_No429(error) ==
    IF error.code \in NetworkCodes THEN TRUE
    ELSE IF error.hasResponse /\ error.status >= 500 THEN TRUE
    ELSE FALSE

\* shouldRetry retrying the statuses 401 and 403 as it retries 429
shouldRetry_RetryAuth(error) ==
    IF error.code \in NetworkCodes THEN TRUE
    ELSE IF error.hasResponse /\ error.status >= 500 THEN TRUE
    ELSE IF error.hasResponse /\ error.status \in {401, 403, 429} THEN TRUE
    ELSE FALSE

\* shouldRetry(error), for an error that is not null or undefined
shouldRetry(error) ==
    IF error.code \in NetworkCodes THEN TRUE
    ELSE IF error.hasResponse /\ error.status >= 500 THEN TRUE
    ELSE IF error.hasResponse /\ error.status = 429 THEN TRUE
    ELSE IF error.hasResponse /\ error.status >= 400 /\ error.status < 500
         THEN FALSE
    ELSE FALSE

\* calculateDelay with the exponent off by one (attempt instead of attempt - 1)
calculateDelay_Exponent(a) ==
    Min(config.delayMs * Pow(config.backoffMultiplier, a), MAX_DELAY_MS)

\* calculateDelay with the ceiling applied to delayMs, not to the product
calculateDelay_CapFirst(a) ==
    Min(config.delayMs, MAX_DELAY_MS) * Pow(config.backoffMultiplier, a - 1)

\* calculateDelay(attempt)
calculateDelay(a) ==
    Min(config.delayMs * Pow(config.backoffMultiplier, a - 1), MAX_DELAY_MS)

\* `x || d` of JavaScript on strings: the empty string is falsy
OrElse(x, d) == IF x = "" THEN d ELSE x

\* an ErrorDetails value; retryAttempt 0 and hasDetails FALSE stand for the
\* absent properties, and details holds errorCode, status, data and stack
\* ("" / 0 / FALSE when absent)
ErrorDetails(code, message, retryAttempt, hasDetails, details) ==
    [code |-> code, message |-> message, retryAttempt |-> retryAttempt,
     hasDetails |-> hasDetails, details |-> details]

NoDetails == [errorCode |-> "", hasStatus |-> FALSE, status |-> 0,
              data |-> FALSE, stack |-> FALSE]

\* classifyError with the 401 / 403 rows tried before the network codes
classifyError_AuthFirst(error) ==
    IF error.hasResponse /\ error.status = 401
    THEN ErrorDetails(2, "Authentication failed: Invalid credentials",
             0, TRUE,
             [NoDetails EXCEPT !.hasStatus = TRUE, !.status = error.status])
    ELSE IF error.hasResponse /\ error.status = 403
    THEN ErrorDetails(2, "Authorization failed: Insufficient permissions",
             0, TRUE,
             [NoDetails EXCEPT !.hasStatus = TRUE, !.status = error.status])
    ELSE IF error.code \in NetworkCodes
    THEN ErrorDetails(3,
             "Network error: " \o OrElse(error.message, "Connection failed"),
             0, TRUE, [NoDetails EXCEPT !.errorCode = error.code])
    ELSE IF error.hasResponse /\ error.status >= 400
    THEN ErrorDetails(1,
             OrElse(error.message, "HTTP error " \o ToString(error.status)),
             0, TRUE,
             [NoDetails EXCEPT !.hasStatus = TRUE, !.status = error.status,
                               !.data = TRUE])
    ELSE ErrorDetails(1, OrElse(error.message, "Unknown error"),
             0, FALSE, NoDetails)

\* classifyError(error), for an error that is not null or undefined
\* (the timestamp is left out)
classifyError(error) ==
    IF error.code \in NetworkCodes
    THEN ErrorDetails(3,
             "Network error: " \o OrElse(error.message, "Connection failed"),
             0, TRUE, [NoDetails EXCEPT !.errorCode = error.code])
    ELSE IF error.hasResponse /\ error.status = 401
    THEN ErrorDetails(2, "Authentication failed: Invalid credentials",
             0, TRUE,
             [NoDetails EXCEPT !.hasStatus = TRUE, !.status = error.status])
    ELSE IF error.hasResponse /\ error.status = 403
    THEN ErrorDetails(2, "Authorization failed: Insufficient permissions",
             0, TRUE,
             [NoDetails EXCEPT !.hasStatus = TRUE, !.status = error.status])
    ELSE IF error.hasResponse /\ error.status >= 400
    THEN ErrorDetails(1,
             OrElse(error.message, "HTTP error " \o ToString(error.status)),
             0, TRUE,
             [NoDetails EXCEPT !.hasStatus = TRUE, !.status = error.status,
                               !.data = TRUE])
    ELSE ErrorDetails(1, OrElse(error.message, "Unknown error"),
             0, FALSE, NoDetails)

\* createErrorDetails that downgrades the code of a retried failure to 1
createErrorDetails_RetryCode(error, retryAttempt) ==
    [classifyError(error) EXCEPT
        !.retryAttempt = retryAttempt,
        !.hasDetails = TRUE,
        !.code = IF retryAttempt > 1 THEN 1 ELSE @]

\* createErrorDetails(error, retryAttempt): the classification, then
\* retryAttempt, then details rebuilt from the classification's details, the
\* stack and, with a response, its status and data
createErrorDetails(error, retryAttempt) ==
    LET classified == classifyError(error)
        withStack == [classified.details EXCEPT !.stack = TRUE]
    IN  [classified EXCEPT
            !.retryAttempt = retryAttempt,
            !.hasDetails = TRUE,
            !.details = IF error.hasResponse
                        THEN [withStack EXCEPT !.hasStatus = TRUE,
                                               !.status = error.status,
                                               !.data = TRUE]
                        ELSE withStack]

\* lines 200-209, getExitCode(errorType): the entry of the table exitCodes
\* for the type, or 1 when that is falsy (no entry, or the entry 0)
getExitCode(errorType) ==
    LET exitCodes == [success |-> 0, error |-> 1, auth_error |-> 2,
                      network_error |-> 3]
    IN  IF errorType \in DOMAIN exitCodes /\ exitCodes[errorType] # 0
        THEN exitCodes[errorType]
        ELSE 1

(***************************************************************************)
(* SecureLogger: threshold, console and error log file.                    *)
(***************************************************************************)
logLevels == <<"debug", "info", "warn", "error">>

\* Array.prototype.indexOf: the 0-based index of x in s, -1 when absent
indexOf(s, x) ==
    IF \E i \in 1..Len(s) : s[i] = x
    THEN (CHOOSE i \in 1..Len(s) : s[i] = x /\ \A j \in 1..(i - 1) : s[j] # x) - 1
    ELSE -1

\* shouldLog(level) with > in place of >=
shouldLog_Above(level) ==
    indexOf(logLevels, level) > indexOf(logLevels, logLevel)

\* shouldLog(level)
shouldLog(level) == indexOf(logLevels, level) >= indexOf(logLevels, logLevel)

\* the data of a logger call made by executeWithRetry: kind "details" carries
\* {error: ErrorDetails}, kind "retry" carries {error: message, attempt}
DetailsData(details) ==
    [kind |-> "details", details |-> details, error |-> "", attempt |-> 0]
RetryData(message, n) ==
    [kind |-> "retry", details |-> ErrorDetails(0, "", 0, FALSE, NoDetails),
     error |-> message, attempt |-> n]

\* createLogEntry(level, message, data), without the timestamp
createLogEntry(level, message, data) ==
    [level |-> level, message |-> message, data |-> data]

\* the console after warn(message, data)
warnConsole(message, data) ==
    IF shouldLog("warn")
    THEN Append(console, createLogEntry("warn", message, data))
    ELSE console

\* what fs.appendFileSync raises when the file cannot be written
FsErrorValue ==
    [tag |-> "object", id |-> 0, code |-> "EACCES", hasResponse |-> FALSE,
     status |-> 0, message |-> "permission denied"]

\* line 213: what writeToErrorLog prints when the append failed
FailedWrite ==
    [level |-> "error", message |-> "Failed to write to error log:",
     data |-> [kind |-> "fsError",
               details |-> ErrorDetails(0, "", 0, FALSE, NoDetails),
               error |-> FsErrorValue.message, attempt |-> 0]]

\* writeToErrorLog writing the file anew (writeFileSync) instead of appending
writeToErrorLog_Overwrite(file, cons, entry, appendOk) ==
    IF appendOk
    THEN [errorLog |-> <<entry>>, console |-> cons, threw |-> FALSE]
    ELSE [errorLog |-> file, console |-> Append(cons, FailedWrite),
          threw |-> FALSE]

\* writeToErrorLog without its try/catch: a failed append raises to the caller
writeToErrorLog_NoCatch(file, cons, entry, appendOk) ==
    IF appendOk
    THEN [errorLog |-> Append(file, entry), console |-> cons, threw |-> FALSE]
    ELSE [errorLog |-> file, console |-> cons, threw |-> TRUE]

\* lines 208-215, writeToErrorLog(entry) on the file `file` and the console
\* `cons`: the entry is appended, or the failure to append is caught and
\* printed; threw tells whether the call raised to its caller
writeToErrorLog(file, cons, entry, appendOk) ==
    IF appendOk
    THEN [errorLog |-> Append(file, entry), console |-> cons, threw |-> FALSE]
    ELSE [errorLog |-> file, console |-> Append(cons, FailedWrite),
          threw |-> FALSE]

\* lines 197-203, error(message, data): the file, the console and whether
\* the call raised
errorCall(message, data, appendOk) ==
    IF shouldLog("error")
    THEN LET entry == createLogEntry("error", message, data)
         IN  writeToErrorLog(errorLog, Append(console, entry), entry, appendOk)
    ELSE [errorLog |-> errorLog, console |-> console, threw |-> FALSE]

\* the console after error(message, data)
errorConsole(message, data, appendOk) ==
    errorCall(message, data, appendOk).console

\* the error log file after error(message, data)
errorFile(message, data, appendOk) ==
    errorCall(message, data, appendOk).errorLog

\* what leaves a catch block of executeWithRetry that calls
\* error(message, data) and then throws `thrown`
ThrownAfterError(message, data, appendOk, thrown) ==
    IF errorCall(message, data, appendOk).threw THEN FsErrorValue ELSE thrown

(***************************************************************************)
(* ErrorHandler.executeWithRetry, one invocation.                          *)
(*   pc: "idle" not yet invoked, "calling" awaiting fn(), "sleeping"       *)
(*   awaiting sleep(delay), "returned" / "thrown" the invocation is over.  *)
(***************************************************************************)
\* a JavaScript number in a template string
NumText(n) == IF n.nan THEN "NaN" ELSE ToString(n.v)

\* the loop condition admitting one attempt more (attempt <= maxRetries + 1)
LoopContinues_OneMore(a) ==
    ~config.maxRetries.nan /\ a <= config.maxRetries.v + 1

\* the retry test admitting the last attempt (attempt <= maxRetries)
RetryLeft_Leq(a) == LeqJS(a, config.maxRetries)

\* line 27: the loop condition, attempt <= maxRetries
LoopContinues(a) == LeqJS(a, config.maxRetries)

\* line 42: attempt < maxRetries, a retry is left
RetryLeft(a) == LessJS(a, config.maxRetries)

\* lines 56-61: all retries failed.  Reading a property of a null lastError
\* in classifyError raises a TypeError before anything is logged.
Exhausted(last, appendOk) ==
    IF IsNullish(last)
    THEN /\ outcome' = TypeErrorValue
         /\ UNCHANGED <<console, errorLog>>
    ELSE LET message == "Operation failed after " \o NumText(config.maxRetries)
                            \o " attempts"
             data == DetailsData(createErrorDetails(last,
                         IF config.maxRetries.nan THEN 0
                         ELSE config.maxRetries.v))
         IN  /\ console' = errorConsole(message, data, appendOk)
             /\ errorLog' = errorFile(message, data, appendOk)
             /\ outcome' = ThrownAfterError(message, data, appendOk, last)

\* lines 25-29: the invocation starts; the loop is entered when
\* 1 <= maxRetries and fn() is called, otherwise control falls to line 56
Invoke ==
    /\ pc = "idle"
    /\ lastError' = null
    /\ attempt' = 1
    /\ IF LoopContinues(1)
       THEN /\ calls' = calls + 1
            /\ pc' = "calling"
            /\ UNCHANGED <<outcome, console, errorLog>>
       ELSE /\ pc' = "thrown"
            /\ \E appendOk \in BOOLEAN : Exhausted(null, appendOk)
            /\ UNCHANGED calls
    /\ UNCHANGED <<config, logLevel, raised, delays, timer, otherVars>>

\* fn() resolves but its value is not returned from inside the loop: the
\* loop goes on and the value is returned when it has run out
OperationResolves_NoReturn ==
    /\ pc = "calling"
    /\ attempt' = attempt + 1
    /\ IF LoopContinues(attempt + 1)
       THEN /\ calls' = calls + 1
            /\ pc' = "calling"
            /\ UNCHANGED outcome
       ELSE /\ pc' = "returned"
            /\ outcome' = [tag |-> "value", id |-> calls, code |-> "",
                            hasResponse |-> FALSE, status |-> 0,
                            message |-> ""]
            /\ UNCHANGED calls
    /\ UNCHANGED <<config, logLevel, lastError, raised, delays, timer,
                   console, errorLog, otherVars>>

\* line 29: fn() resolves and its value is returned
OperationResolves ==
    /\ pc = "calling"
    /\ pc' = "returned"
    /\ outcome' = [tag |-> "value", id |-> calls, code |-> "",
                    hasResponse |-> FALSE, status |-> 0, message |-> ""]
    /\ UNCHANGED <<config, logLevel, attempt, lastError, calls, raised,
                   delays, timer, console, errorLog, otherVars>>

\* line 34, with error null or undefined: shouldRetry reads error.code and
\* the TypeError leaves the catch block
RejectNullish(error) ==
    /\ pc' = "thrown"
    /\ outcome' = TypeErrorValue
    /\ UNCHANGED <<attempt, delays, timer, console, errorLog, calls>>

\* the retry branch without its await: the delay is computed and logged, the
\* timer is set, and fn() is called again at once
RejectRetry_NoAwait(error) ==
    LET delay == calculateDelay(attempt)
        message == "Retry attempt " \o ToString(attempt) \o "/"
                     \o NumText(config.maxRetries) \o " after "
                     \o ToString(delay) \o "ms"
    IN  /\ console' = warnConsole(message, RetryData(error.message, attempt))
        /\ delays' = Append(delays, delay)
        /\ timer' = delay
        /\ attempt' = attempt + 1
        /\ calls' = calls + 1
        /\ pc' = "calling"
        /\ UNCHANGED <<outcome, errorLog>>

\* lines 42-51: a retry is left; the delay is computed, logged and slept
RejectRetry(error) ==
    LET delay == calculateDelay(attempt)
        message == "Retry attempt " \o ToString(attempt) \o "/"
                     \o NumText(config.maxRetries) \o " after "
                     \o ToString(delay) \o "ms"
    IN  /\ console' = warnConsole(message, RetryData(error.message, attempt))
        /\ delays' = Append(delays, delay)
        /\ timer' = delay
        /\ pc' = "sleeping"
        /\ UNCHANGED <<attempt, outcome, errorLog, calls>>

\* lines 42, 27 and 56-61: no retry is left and no delay is taken; attempt++
\* and the loop condition, which ends the loop and leads to line 56
RejectLast(error) ==
    /\ attempt' = attempt + 1
    /\ IF LoopContinues(attempt + 1)
       THEN /\ calls' = calls + 1
            /\ pc' = "calling"
            /\ UNCHANGED <<outcome, console, errorLog>>
       ELSE /\ pc' = "thrown"
            /\ \E appendOk \in BOOLEAN : Exhausted(error, appendOk)
            /\ UNCHANGED calls
    /\ UNCHANGED <<delays, timer>>

\* the non-retryable branch without its throw: control goes on as for a
\* retryable error
RejectNonRetryable_NoThrow(error) ==
    IF RetryLeft(attempt) THEN RejectRetry(error) ELSE RejectLast(error)

\* lines 34-39: a non-retryable error is logged and thrown at once
RejectNonRetryable(error) ==
    \E appendOk \in BOOLEAN :
        LET data == DetailsData(createErrorDetails(error, attempt))
            message == "Operation failed (non-retryable error)"
        IN  /\ console' = errorConsole(message, data, appendOk)
            /\ errorLog' = errorFile(message, data, appendOk)
            /\ pc' = "thrown"
            /\ outcome' = ThrownAfterError(message, data, appendOk, error)
            /\ UNCHANGED <<attempt, delays, timer, calls>>

\* lines 30-52 and, when the loop ends, 56-61: fn() rejects with `error`
OperationRejects(error) ==
    /\ pc = "calling"
    /\ raised' = error
    /\ lastError' = error
    /\ IF IsNullish(error) THEN RejectNullish(error)
       ELSE IF ~shouldRetry(error) THEN RejectNonRetryable(error)
       ELSE IF RetryLeft(attempt) THEN RejectRetry(error)
       ELSE RejectLast(error)
    /\ UNCHANGED <<config, logLevel, otherVars>>

\* the timer fires but the promise of sleep(delay) is not resolved: the
\* invocation stays suspended
TimerFires_NoResolve ==
    /\ pc = "sleeping"
    /\ timer' = 0
    /\ UNCHANGED <<config, logLevel, pc, attempt, lastError, calls, raised,
                   delays, outcome, console, errorLog, otherVars>>

\* lines 50 and 27-29: the timer of sleep(delay) fires, attempt++ and, as
\* attempt <= maxRetries, fn() is called again
TimerFires ==
    /\ pc = "sleeping"
    /\ attempt' = attempt + 1
    /\ IF LoopContinues(attempt + 1)
       THEN /\ calls' = calls + 1
            /\ pc' = "calling"
            /\ UNCHANGED <<outcome, console, errorLog>>
       ELSE /\ pc' = "thrown"
            /\ \E appendOk \in BOOLEAN : Exhausted(lastError, appendOk)
            /\ UNCHANGED calls
    /\ UNCHANGED <<config, logLevel, lastError, raised, delays, timer,
                   otherVars>>

(***************************************************************************)
(* SecureLogger.maskSensitiveData.                                         *)
(*                                                                         *)
(* Strings that the code inspects (object keys, mask fields) are sequences *)
(* of characters.  A value is a primitive (string, null, undefined), a     *)
(* Date or a reference to a node of the heap; a node is an object (keys    *)
(* in enumeration order, with their values) or an array (its elements).    *)
(* The copy maskSensitiveData builds of node n is the fresh node CopyOf(n).*)
(***************************************************************************)
UpperCase == <<"A", "B", "C", "D", "E", "F", "G", "H", "I", "J", "K", "L", "M",
               "N", "O", "P", "Q", "R", "S", "T", "U", "V", "W", "X", "Y", "Z">>
LowerCase == <<"a", "b", "c", "d", "e", "f", "g", "h", "i", "j", "k", "l", "m",
               "n", "o", "p", "q", "r", "s", "t", "u", "v", "w", "x", "y", "z">>

\* String.prototype.toLowerCase on one character and on a string
LowerChar(c) ==
    LET upper == {i \in 1..Len(UpperCase) : UpperCase[i] = c}
    IN  IF upper = {} THEN c ELSE LowerCase[CHOOSE i \in upper : TRUE]
toLowerCase(str) == [i \in 1..Len(str) |-> LowerChar(str[i])]

\* String.prototype.includes: sub occurs in str (the empty string always does)
includes(str, sub) ==
    \E i \in 0..(Len(str) - Len(sub)) :
        \A j \in 1..Len(sub) : str[i + j] = sub[j]

\* values
Str(text) == [t |-> "str", s |-> text, n |-> 0]
Ref(n) == [t |-> "ref", s |-> "", n |-> n]
DateValue == [t |-> "date", s |-> "", n |-> 0]
NullValue == [t |-> "null", s |-> "", n |-> 0]
UndefinedValue == [t |-> "undefined", s |-> "", n |-> 0]

\* nodes
ObjectNode(keys, vals) == [arr |-> FALSE, keys |-> keys, vals |-> vals]
ArrayNode(vals) == [arr |-> TRUE, keys |-> <<>>, vals |-> vals]

\* the markers maskSensitiveData writes
MaskedMarker == Str("***MASKED***")
CircularMarker == Str("[Circular Reference]")
MaxDepthMarker == Str("[Max Depth Reached]")

\* the depth ceiling of line 60
MaxDepth == 10

\* the nodes of an input: a chain of at most MaxSpine wrappers and two more
NodeCount == MaxSpine + 2
\* the node maskSensitiveData allocates as the copy of node n
CopyOf(n) == n + NodeCount

\* lines 100-102 with the key compared as it is, without toLowerCase
shouldMask_CaseSensitive(key) ==
    \E i \in 1..Len(maskFields) : includes(key, maskFields[i])

\* lines 97-102: the lowercased key contains a lowercased mask field
shouldMask(key) ==
    LET lowerKey == toLowerCase(key)
    IN  \E i \in 1..Len(maskFields) :
            includes(lowerKey, toLowerCase(maskFields[i]))

RECURSIVE maskValue(_, _, _, _)
RECURSIVE maskEntries(_, _, _, _, _, _)

RECURSIVE maskValue_PrimitivesFirst(_, _, _, _)
\* maskSensitiveData(data, depth) with the depth test of lines 60-62 made
\* after the tests for null, undefined, primitives and Dates
maskValue_PrimitivesFirst(h, data, depth, st) ==
    IF data.t # "ref" THEN [val |-> data, st |-> st]
    ELSE IF depth > MaxDepth THEN [val |-> MaxDepthMarker, st |-> st]
    ELSE IF data.n \in st.seen THEN [val |-> CircularMarker, st |-> st]
    ELSE LET entered == [st EXCEPT !.seen = @ \cup {data.n}]
             r == maskEntries(h, data.n, 1, depth, entered, <<>>)
             copy == [h[data.n] EXCEPT !.vals = r.vals]
         IN  [val |-> Ref(CopyOf(data.n)),
              st |-> [r.st EXCEPT !.out = (CopyOf(data.n) :> copy) @@ @]]

RECURSIVE maskValue_NoSeenCheck(_, _, _, _)
\* maskSensitiveData(data, depth) without the test of lines 80-82
maskValue_NoSeenCheck(h, data, depth, st) ==
    IF depth > MaxDepth THEN [val |-> MaxDepthMarker, st |-> st]
    ELSE IF data.t # "ref" THEN [val |-> data, st |-> st]
    ELSE LET entered == [st EXCEPT !.seen = @ \cup {data.n}]
             r == maskEntries(h, data.n, 1, depth, entered, <<>>)
             copy == [h[data.n] EXCEPT !.vals = r.vals]
         IN  [val |-> Ref(CopyOf(data.n)),
              st |-> [r.st EXCEPT !.out = (CopyOf(data.n) :> copy) @@ @]]

\* lines 58-119, maskSensitiveData(data, depth): st.seen is this.seenObjects
\* and st.out holds the copies built so far; the result is the returned
\* value with the state after the call (the reset of line 116 apart)
maskValue(h, data, depth, st) ==
    IF depth > MaxDepth THEN [val |-> MaxDepthMarker, st |-> st]
    ELSE IF data.t # "ref" THEN [val |-> data, st |-> st]
    ELSE IF data.n \in st.seen THEN [val |-> CircularMarker, st |-> st]
    ELSE LET entered == [st EXCEPT !.seen = @ \cup {data.n}]
             r == maskEntries(h, data.n, 1, depth, entered, <<>>)
             copy == [h[data.n] EXCEPT !.vals = r.vals]
         IN  [val |-> Ref(CopyOf(data.n)),
              st |-> [r.st EXCEPT !.out = (CopyOf(data.n) :> copy) @@ @]]

RECURSIVE maskEntries_TopOnly(_, _, _, _, _, _)
\* the entries copied with the keys tested in the outermost object only
maskEntries_TopOnly(h, n, i, depth, st, acc) ==
    IF i > Len(h[n].vals) THEN [vals |-> acc, st |-> st]
    ELSE IF ~h[n].arr /\ depth = 0 /\ shouldMask(h[n].keys[i])
    THEN maskEntries_TopOnly(h, n, i + 1, depth, st,
                             Append(acc, MaskedMarker))
    ELSE LET r == maskValue(h, h[n].vals[i], depth + 1, st)
         IN  maskEntries_TopOnly(h, n, i + 1, depth, r.st,
                                 Append(acc, r.val))

\* lines 89-110: the elements of array n (data.map) or the own keys of
\* object n (for ... in), from entry i on, in order
maskEntries(h, n, i, depth, st, acc) ==
    IF i > Len(h[n].vals) THEN [vals |-> acc, st |-> st]
    ELSE IF ~h[n].arr /\ shouldMask(h[n].keys[i])
    THEN maskEntries(h, n, i + 1, depth, st, Append(acc, MaskedMarker))
    ELSE LET r == maskValue(h, h[n].vals[i], depth + 1, st)
         IN  maskEntries(h, n, i + 1, depth, r.st, Append(acc, r.val))

\* the call recording the copies it makes in seenObjects and leaving
\* seenObjects as it is when it returns
maskSensitiveData_SeenCopies(h, data, seen) ==
    LET r == maskValue(h, data, 0, [seen |-> seen, out |-> <<>>])
    IN  [val |-> r.val, out |-> r.st.out,
         seen |-> r.st.seen \cup DOMAIN r.st.out]

\* the call without the finally block of lines 113-118: this.seenObjects
\* keeps the objects the call has seen
maskSensitiveData_NoReset(h, data, seen) ==
    LET r == maskValue(h, data, 0, [seen |-> seen, out |-> <<>>])
    IN  [val |-> r.val, out |-> r.st.out, seen |-> r.st.seen]

\* a top-level call maskSensitiveData(data): the returned value, the copies
\* it is made of, and this.seenObjects after the call (line 116 resets it
\* when the call got as far as the try block)
maskSensitiveData(h, data, seen) ==
    LET r == maskValue(h, data, 0, [seen |-> seen, out |-> <<>>])
        triedBlock == data.t = "ref" /\ data.n \notin seen
    IN  [val |-> r.val, out |-> r.st.out,
         seen |-> IF triedBlock THEN {} ELSE r.st.seen]

\* a top-level call maskSensitiveData(data) that ends by an exception raised
\* while an object or array is walked (reading data[key], line 107, runs a
\* getter that throws): the frames of the nested calls unwind through their
\* finally blocks and the one of depth 0 resets this.seenObjects (line 116).
\* Only the try block of lines 87-112 can raise.
maskSensitiveDataRaising(h, data, seen) ==
    LET triedBlock == data.t = "ref" /\ data.n \notin seen
    IN  [possible |-> triedBlock, seen |-> IF triedBlock THEN {} ELSE seen]

\* nothing masked yet
NoMasked == [val |-> UndefinedValue, out |-> <<>>]
\* the value has not been masked once more
NoRepeat == [ended |-> "none", val |-> UndefinedValue, out |-> <<>>]

\* a caller masks the value `root`
MaskCall ==
    /\ maskCalls = 0
    /\ LET r == maskSensitiveData(heap, root, seenObjects)
       IN  /\ masked' = [val |-> r.val, out |-> r.out]
           /\ seenObjects' = r.seen
    /\ maskCalls' = maskCalls + 1
    /\ UNCHANGED <<maskFields, heap, root, remasked, repeated, execVars, probe,
                   logVars,
                   cliVars, textVars>>

\* the caller masks the value the first call returned
MaskAgain ==
    /\ maskCalls = 1
    /\ LET r == maskSensitiveData(masked.out, masked.val, seenObjects)
       IN  /\ remasked' = [val |-> r.val, out |-> r.out]
           /\ seenObjects' = r.seen
    /\ maskCalls' = maskCalls + 1
    /\ UNCHANGED <<maskFields, heap, root, masked, repeated, execVars, probe, logVars,
                   cliVars, textVars>>

\* after the two calls the caller masks `root` once more; the call returns
\* or, when it walks an object, may end by an exception
MaskRepeat ==
    /\ maskCalls = 2
    /\ \/ LET r == maskSensitiveData(heap, root, seenObjects)
          IN  /\ repeated' = [ended |-> "returned", val |-> r.val,
                              out |-> r.out]
              /\ seenObjects' = r.seen
       \/ LET r == maskSensitiveDataRaising(heap, root, seenObjects)
          IN  /\ r.possible
              /\ repeated' = [ended |-> "threw", val |-> UndefinedValue,
                              out |-> <<>>]
              /\ seenObjects' = r.seen
    /\ maskCalls' = maskCalls + 1
    /\ UNCHANGED <<maskFields, heap, root, masked, remasked, execVars, probe,
                   logVars, cliVars, textVars>>

(***************************************************************************)
(* The inputs of SpecMask: a chain of `len` wrappers (all objects {d: ...} *)
(* or all arrays [...]) around node A, with a second node B.  A and B hold *)
(* strings, Dates, null and references to A, to B and to the root, so that *)
(* the graphs are trees, share B, or are cyclic.                           *)
(***************************************************************************)
Key_d == <<"d">>
Key_id == <<"i", "d">>
Key_Pwd == <<"P", "w", "d">>
Key_userpwd2 == <<"u", "s", "e", "r", "p", "w", "d", "2">>

NodeA(len) == len + 1
NodeB(len) == len + 2

\* the values an entry of A may hold
EntryValues(len) ==
    {Str("s3cr3t"), DateValue, Ref(NodeA(len)), Ref(NodeB(len)), Ref(1)}

\* the forms of node A: an object or an array with at most two entries
ANodes(len) ==
    LET AKeys == {Key_id, Key_Pwd, Key_userpwd2}
    IN
    {ObjectNode(<<>>, <<>>), ArrayNode(<<>>)}
    \cup {ObjectNode(<<k>>, <<v>>) : k \in AKeys, v \in EntryValues(len)}
    \cup {ObjectNode(<<k[1], k[2]>>, <<v[1], v[2]>>) :
              k \in {kk \in AKeys \X AKeys : kk[1] # kk[2]},
              v \in EntryValues(len) \X EntryValues(len)}
    \cup {ArrayNode(<<v>>) : v \in EntryValues(len)}
    \cup {ArrayNode(<<v[1], v[2]>>) :
              v \in EntryValues(len) \X EntryValues(len)}

\* the forms of node B
BNodes(len) ==
    {ObjectNode(<<Key_Pwd, Key_id>>, <<Str("s3cr3t"), NullValue>>),
     ObjectNode(<<Key_id>>, <<Ref(NodeA(len))>>),
     ArrayNode(<<Str("s3cr3t"), Ref(NodeA(len))>>),
     ObjectNode(<<Key_userpwd2>>, <<Ref(NodeB(len))>>)}

\* the heap of a chain of `len` wrappers, objects or arrays, around a and b
ChainHeap(len, arrays, a, b) ==
    [n \in 1..(len + 2) |->
        IF n = NodeA(len) THEN a
        ELSE IF n = NodeB(len) THEN b
        ELSE IF arrays THEN ArrayNode(<<Ref(n + 1)>>)
        ELSE ObjectNode(<<Key_d>>, <<Ref(n + 1)>>)]

(***************************************************************************)
(* Config: the configurations read from the environment.  A variable of    *)
(* the environment is unset or holds a text (a sequence of characters).    *)
(***************************************************************************)
\* process.env.X of a variable that is not set
EnvUnset == [set |-> FALSE, v |-> <<>>]

\* process.env.X || d: the default replaces an unset variable and the empty
\* text, both falsy
EnvOr(e, d) == IF ~e.set \/ e.v = <<>> THEN d ELSE e.v

RECURSIVE split(_)
\* String.prototype.split(','): the texts between the commas, in order; a
\* text without a comma, the empty text included, gives that one text
split(text) ==
    LET commas == {i \in 1..Len(text) : text[i] = ","}
    IN  IF commas = {} THEN <<text>>
        ELSE LET c == CHOOSE i \in commas : \A j \in commas : i <= j
             IN  <<SubSeq(text, 1, c - 1)>>
                     \o split(SubSeq(text, c + 1, Len(text)))

\* String.prototype.trim: the text without its leading and trailing white
\* space
trim(text) ==
    LET inked == {i \in 1..Len(text) : text[i] \notin {" ", "\t", "\n"}}
    IN  IF inked = {} THEN <<>>
        ELSE SubSeq(text, CHOOSE i \in inked : \A j \in inked : i <= j,
                          CHOOSE i \in inked : \A j \in inked : j <= i)

\* config.ts lines 24-30, Config.getLogConfig: the level and the mask fields
\* (LOG_MASK_FIELDS || '', split at the commas, each field trimmed)
getLogConfig(env) ==
    LET fields == split(EnvOr(env.LOG_MASK_FIELDS, <<>>))
    IN  [level |-> IF env.LOG_LEVEL = "" THEN "info" ELSE env.LOG_LEVEL,
         maskFields |-> [i \in 1..Len(fields) |-> trim(fields[i])]]

\* the decimal digits, in order
DecimalDigits == <<"0", "1", "2", "3", "4", "5", "6", "7", "8", "9">>

\* parseInt(text, 10): leading white space is skipped, a sign is read, then
\* the longest run of decimal digits; what follows the run is ignored, and
\* the result is NaN when there is no digit
parseInt(text) ==
    LET t == trim(text)
        signed == t # <<>> /\ t[1] \in {"-", "+"}
        from == IF signed THEN 2 ELSE 1
        digit == {DecimalDigits[i] : i \in 1..10}
        stops == {i \in from..Len(t) : t[i] \notin digit}
        last == IF stops = {} THEN Len(t)
                ELSE (CHOOSE i \in stops : \A j \in stops : i <= j) - 1
        value[k \in (from - 1)..last] ==
            IF k = from - 1 THEN 0
            ELSE 10 * value[k - 1]
                   + (CHOOSE d \in 0..9 : DecimalDigits[d + 1] = t[k])
    IN  IF last < from THEN NaN
        ELSE IF signed /\ t[1] = "-" THEN Num(0 - value[last])
        ELSE Num(value[last])

\* config.ts lines 32-38, Config.getRetryConfig: each variable, or its
\* default when it is unset or empty, read by parseInt.  RETRY_DELAY_MS and
\* RETRY_BACKOFF_MULTIPLIER hold numbers in the environments of the model.
getRetryConfig(env) ==
    [maxRetries |-> parseInt(EnvOr(env.MAX_RETRIES, <<"3">>)),
     delayMs |-> parseInt(EnvOr(env.RETRY_DELAY_MS,
                                <<"1", "0", "0", "0">>)).v,
     backoffMultiplier |->
         parseInt(EnvOr(env.RETRY_BACKOFF_MULTIPLIER, <<"2">>)).v]

\* the environments of Spec: MAX_RETRIES unset, not a number, negative, 0
\* or a number of attempts; RETRY_DELAY_MS 0, unset (1000) or 20000;
\* RETRY_BACKOFF_MULTIPLIER a digit
RetryEnvs ==
    LET Text(t) == [set |-> TRUE, v |-> t]
    IN  [MAX_RETRIES :
             {EnvUnset, Text(<<"a", "b", "c">>), Text(<<"-", "1">>)}
             \cup {Text(<<DecimalDigits[n + 1]>>) : n \in 0..MaxRetriesBound},
         RETRY_DELAY_MS :
             {EnvUnset, Text(<<"0">>), Text(<<"2", "0", "0", "0", "0">>)},
         RETRY_BACKOFF_MULTIPLIER :
             {Text(<<DecimalDigits[n + 1]>>) : n \in 0..MaxMultiplier}]

\* config.maskFields as getLogConfig reads it: LOG_MASK_FIELDS not set, set
\* to a lowercase field, or to an uppercase field beside a field no key
\* contains
MaskFieldsValues ==
    {getLogConfig([LOG_LEVEL |-> "", LOG_MASK_FIELDS |-> e]).maskFields :
        e \in {EnvUnset,
               [set |-> TRUE, v |-> <<"p", "w", "d">>],
               [set |-> TRUE,
                v |-> <<"t", "o", "k", "e", "n", ",", " ", "P", "W", "D">>]}}

\* process.exit has not been called
NoExit == -1

\* no entry point has been started
NoRun ==
    [cli |-> "none", help |-> FALSE, hasService |-> FALSE,
     ended |-> "resolved", error |-> null]

\* no string function has been applied
NoStrCall == [fn |-> "none", input |-> <<>>, output |-> <<>>]

\* no logger call is pending, no entry point is running and no string
\* function has been applied
LogIdle ==
    /\ logQueue = <<>>
    /\ logReturns = <<>>
    /\ cliRun = NoRun
    /\ exitCode = NoExit
    /\ strCall = NoStrCall

MaskIdle ==
    /\ maskFields = <<>>
    /\ heap = <<>>
    /\ root = UndefinedValue
    /\ seenObjects = {}
    /\ masked = NoMasked
    /\ remasked = NoMasked
    /\ repeated = NoRepeat
    /\ maskCalls = 0

\* SpecPure's record of one application of a pure function of ErrorHandler
\* (fn: the function, error and arg: its inputs, threw: it raised a TypeError,
\* retry / details / delay and next: its result)
Probe(fn, error, arg, threw, retry, details, delay, next) ==
    [fn |-> fn, error |-> error, arg |-> arg, threw |-> threw,
     retry |-> retry, details |-> details, delay |-> delay, next |-> next]
UnsetDetails == ErrorDetails(0, "", 0, FALSE, NoDetails)
NoProbe == Probe("", null, 0, FALSE, FALSE, UnsetDetails, 0, 0)

(***************************************************************************)
(* The configurations an ErrorHandler and its logger are built with.       *)
(***************************************************************************)
\* "verbose" stands for a LOG_LEVEL that is none of the four levels
LogLevelValues == {"debug", "info", "warn", "error", "verbose"}

Init ==
    /\ config \in {getRetryConfig(env) : env \in RetryEnvs}
    /\ logLevel \in LogLevelValues
    /\ pc = "idle"
    /\ attempt = 0
    /\ lastError = null
    /\ calls = 0
    /\ raised = null
    /\ delays = <<>>
    /\ timer = 0
    /\ outcome = null
    /\ console = <<>>
    /\ errorLog = <<>>
    /\ probe = NoProbe
    /\ MaskIdle
    /\ LogIdle

Next ==
    \/ Invoke
    \/ OperationResolves
    \/ \E error \in RaisedValues(calls) : OperationRejects(error)
    \/ TimerFires

Spec == Init /\ [][Next]_vars

\* line 29: the promise of fn() settles, with a value or with a failure
Settles ==
    \/ OperationResolves
    \/ \E error \in RaisedValues(calls) : OperationRejects(error)

\* Spec with an operation whose every attempt settles in the end and a
\* timer (line 112, setTimeout) that fires in the end
SpecLive == Spec /\ WF_vars(Settles) /\ WF_vars(TimerFires)

(***************************************************************************)
(* SpecPure: the pure functions of ErrorHandler applied to one input each. *)
(* The ErrorHandler is built and idle; an action applies one function to   *)
(* an input drawn from the sets below and records the result in probe.     *)
(***************************************************************************)
\* the failure values the functions are applied to
PureErrors == ErrorObjects(1, ErrorCodes, Statuses) \cup {null, undefined}
InitPure ==
    /\ config \in [maxRetries : {Num(MaxRetriesBound)},
                   delayMs : {-1000, 0, 1, 1000, 29999, 30000, 30001, 40000},
                   backoffMultiplier : -1..MaxMultiplier]
    /\ logLevel = "info"
    /\ pc = "idle"
    /\ attempt = 0
    /\ lastError = null
    /\ calls = 0
    /\ raised = null
    /\ delays = <<>>
    /\ timer = 0
    /\ outcome = null
    /\ console = <<>>
    /\ errorLog = <<>>
    /\ probe = NoProbe
    /\ MaskIdle
    /\ LogIdle

\* shouldRetry(error); reading error.code of null or undefined raises
ApplyShouldRetry ==
    /\ probe = NoProbe
    /\ \E error \in PureErrors :
         probe' = IF IsNullish(error)
                  THEN Probe("shouldRetry", error, 0, TRUE, FALSE,
                             UnsetDetails, 0, 0)
                  ELSE Probe("shouldRetry", error, 0, FALSE,
                             shouldRetry(error), UnsetDetails, 0, 0)
    /\ UNCHANGED <<execVars, maskVars, logVars, cliVars, textVars>>

\* classifyError(error); reading error.code of null or undefined raises
ApplyClassifyError ==
    /\ probe = NoProbe
    /\ \E error \in PureErrors :
         probe' = IF IsNullish(error)
                  THEN Probe("classifyError", error, 0, TRUE, FALSE,
                             UnsetDetails, 0, 0)
                  ELSE Probe("classifyError", error, 0, FALSE, FALSE,
                             classifyError(error), 0, 0)
    /\ UNCHANGED <<execVars, maskVars, logVars, cliVars, textVars>>

\* createErrorDetails(error, retryAttempt); retryAttempt 0 is the omitted
\* argument
ApplyCreateErrorDetails ==
    /\ probe = NoProbe
    /\ \E error \in PureErrors, n \in 0..MaxAttemptArg :
         probe' = IF IsNullish(error)
                  THEN Probe("createErrorDetails", error, n, TRUE, FALSE,
                             UnsetDetails, 0, 0)
                  ELSE Probe("createErrorDetails", error, n, FALSE, FALSE,
                             createErrorDetails(error, n), 0, 0)
    /\ UNCHANGED <<execVars, maskVars, logVars, cliVars, textVars>>

\* calculateDelay(a) and calculateDelay(a + 1)
ApplyCalculateDelay ==
    /\ probe = NoProbe
    /\ \E a \in 1..MaxAttemptArg :
         probe' = Probe("calculateDelay", null, a, FALSE, FALSE, UnsetDetails,
                        calculateDelay(a), calculateDelay(a + 1))
    /\ UNCHANGED <<execVars, maskVars, logVars, cliVars, textVars>>

\* getExitCode(errorType), with one of the four types of the table or a type
\* that is not in it; the type is kept in the message of probe.error
ApplyGetExitCode ==
    /\ probe = NoProbe
    /\ \E errorType \in {"success", "error", "auth_error", "network_error",
                          "timeout", ""} :
         probe' = Probe("getExitCode",
                        [tag |-> "errorType", id |-> 0, code |-> "",
                         hasResponse |-> FALSE, status |-> 0,
                         message |-> errorType],
                        0, FALSE, FALSE, UnsetDetails, 0,
                        getExitCode(errorType))
    /\ UNCHANGED <<execVars, maskVars, logVars, cliVars, textVars>>

NextPure ==
    \/ ApplyShouldRetry
    \/ ApplyClassifyError
    \/ ApplyCreateErrorDetails
    \/ ApplyCalculateDelay
    \/ ApplyGetExitCode

SpecPure == InitPure /\ [][NextPure]_vars

(***************************************************************************)
(* SpecMask: a SecureLogger is built with its mask fields, one value is    *)
(* masked, the value returned is masked again, and the first value is      *)
(* masked once more.                                                       *)
(***************************************************************************)
InitMask ==
    /\ config = [maxRetries |-> Num(MaxRetriesBound), delayMs |-> 0,
                 backoffMultiplier |-> 1]
    /\ logLevel = "info"
    /\ pc = "idle"
    /\ attempt = 0
    /\ lastError = null
    /\ calls = 0
    /\ raised = null
    /\ delays = <<>>
    /\ timer = 0
    /\ outcome = null
    /\ console = <<>>
    /\ errorLog = <<>>
    /\ probe = NoProbe
    /\ maskFields \in MaskFieldsValues
    /\ \E len \in {0, 1, 2} \cup ((MaxDepth - 1)..MaxSpine),
          arrays \in BOOLEAN :
         \E a \in ANodes(len), b \in BNodes(len) :
            /\ heap = ChainHeap(len, arrays, a, b)
            /\ root = Ref(1)
    /\ seenObjects = {}
    /\ masked = NoMasked
    /\ remasked = NoMasked
    /\ repeated = NoRepeat
    /\ maskCalls = 0
    /\ LogIdle

NextMask ==
    \/ MaskCall
    \/ MaskAgain
    \/ MaskRepeat

SpecMask == InitMask /\ [][NextMask]_vars

(***************************************************************************)
(* SpecLog: a SecureLogger is built with its threshold and mask fields and *)
(* the host program makes the calls of logQueue, in order.  Each call is   *)
(* debug, info, warn or error with a message and, as data, a value of a    *)
(* heap of its own.  The console and the error log file hold the texts     *)
(* written, without their timestamps.                                      *)
(***************************************************************************)
\* JavaScript truthiness (data ? ... : undefined, if (entry.data))
Truthy(v) == ~(v.t \in {"null", "undefined"} \/ (v.t = "str" /\ v.s = ""))

\* a JSON text: a string, null, an array of texts or an object of members
JsonString(text) == [t |-> "string", s |-> text, keys |-> <<>>, items |-> <<>>]
\* no JSON text at all
NoText == [t |-> "absent", s |-> "", keys |-> <<>>, items |-> <<>>]

RECURSIVE definedFrom(_, _)
\* the indices, from i on, of the entries of an object that JSON.stringify
\* keeps: those whose value is not undefined
definedFrom(node, i) ==
    IF i > Len(node.vals) THEN <<>>
    ELSE IF node.vals[i].t = "undefined" THEN definedFrom(node, i + 1)
    ELSE <<i>> \o definedFrom(node, i + 1)

RECURSIVE stringify(_, _)
\* line 49, JSON.stringify(value, null, 2), of a value of the heap `out`
\* that holds no cycle: an object keeps its defined members in order, an
\* array keeps every element (undefined as null), a Date gives its ISO text
stringify(out, v) ==
    IF v.t = "ref"
    THEN LET node == out[v.n]
             kept == IF node.arr THEN [i \in 1..Len(node.vals) |-> i]
                     ELSE definedFrom(node, 1)
         IN  [t |-> IF node.arr THEN "array" ELSE "object",
              s |-> "",
              keys |-> IF node.arr THEN <<>>
                       ELSE [i \in 1..Len(kept) |-> node.keys[kept[i]]],
              items |-> [i \in 1..Len(kept) |->
                            stringify(out, node.vals[kept[i]])]]
    ELSE IF v.t = "str" THEN JsonString(v.s)
    ELSE IF v.t = "date" THEN JsonString("1970-01-01T00:00:00.000Z")
    ELSE [t |-> "null", s |-> "", keys |-> <<>>, items |-> <<>>]

\* String.prototype.toUpperCase of a level
toUpperCase(level) ==
    CASE level = "debug" -> "DEBUG"
      [] level = "info" -> "INFO"
      [] level = "warn" -> "WARN"
      [] level = "error" -> "ERROR"

\* lines 32-39, createLogEntry(level, message, data) for a value `data` of
\* the heap h: the entry and this.seenObjects after the call
createMaskedEntry(level, message, h, data) ==
    IF Truthy(data)
    THEN LET r == maskSensitiveData(h, data, seenObjects)
         IN  [entry |-> createLogEntry(level, message,
                                       [val |-> r.val, out |-> r.out]),
              seen |-> r.seen]
    ELSE [entry |-> createLogEntry(level, message, NoMasked),
          seen |-> seenObjects]

\* lines 41-53, formatLogEntry(entry): the level tag, the message and,
\* when entry.data is truthy, its JSON text
formatLogEntry(entry) ==
    [level |-> toUpperCase(entry.level),
     message |-> entry.message,
     data |-> IF Truthy(entry.data.val)
              THEN stringify(entry.data.out, entry.data.val)
              ELSE NoText]

\* a text printed by console.log ("stdout") or console.warn / console.error
\* ("stderr")
Printed(stream, text) ==
    [stream |-> stream, level |-> text.level, message |-> text.message,
     data |-> text.data]

\* what every logger method leaves alone
LogUnchanged ==
    UNCHANGED <<config, logLevel, pc, attempt, lastError, calls, raised,
                delays, timer, outcome, probe, maskFields, heap, root,
                masked, remasked, repeated, maskCalls, logQueue, cliVars,
                textVars>>

\* a call that returned to its caller; append: "none" when it did not try
\* to append to the error log file, else "ok" or "failed"
Returned(append) == [ended |-> "returned", append |-> append]

\* the host program has a call left to make; NextCall is that call
CallLeft == Len(logReturns) < Len(logQueue)
NextCall == logQueue[Len(logReturns) + 1]

\* lines 167-192: debug, info (console.log) and warn (console.warn) called
\* with the next call of logQueue
LogPlain(level, stream) ==
    /\ CallLeft
    /\ NextCall.level = level
    /\ IF shouldLog(level)
       THEN LET call == NextCall
                made == createMaskedEntry(level, call.message, call.heap,
                                          call.root)
            IN  /\ console' = Append(console,
                       Printed(stream, formatLogEntry(made.entry)))
                /\ seenObjects' = made.seen
       ELSE UNCHANGED <<console, seenObjects>>
    /\ logReturns' = Append(logReturns, Returned("none"))
    /\ UNCHANGED errorLog
    /\ LogUnchanged

\* lines 167-172
LogDebug == LogPlain("debug", "stdout")
\* lines 177-182
LogInfo == LogPlain("info", "stdout")
\* lines 187-192
LogWarn == LogPlain("warn", "stderr")

\* lines 197-215: error called with the next call of logQueue; the append to the
\* error log file succeeds or fails
LogError ==
    /\ CallLeft
    /\ NextCall.level = "error"
    /\ IF shouldLog("error")
       THEN \E appendOk \in BOOLEAN :
              LET call == NextCall
                  made == createMaskedEntry("error", call.message, call.heap,
                                            call.root)
                  text == formatLogEntry(made.entry)
                  r == writeToErrorLog(errorLog,
                           Append(console, Printed("stderr", text)),
                           text, appendOk)
              IN  /\ console' = r.console
                  /\ errorLog' = r.errorLog
                  /\ seenObjects' = made.seen
                  /\ logReturns' = Append(logReturns,
                         [ended |-> IF r.threw THEN "threw" ELSE "returned",
                          append |-> IF appendOk THEN "ok" ELSE "failed"])
       ELSE /\ UNCHANGED <<console, errorLog, seenObjects>>
            /\ logReturns' = Append(logReturns, Returned("none"))
    /\ LogUnchanged

\* a logger call: the method, the message and the data (a value with the
\* heap it lives in; the value undefined is the omitted argument)
LogCall(level, message, data) ==
    [level |-> level, message |-> message, heap |-> data.heap,
     root |-> data.root]
LogValue(h, v) == [heap |-> h, root |-> v]

\* object data of one shape (the length of the chain and whether it is made
\* of arrays): {<key>: <secret>, id: [..., <the object>]} under the chain,
\* the key matching "pwd" or not
LogObjects(shape) ==
    {LogValue(ChainHeap(shape[1], shape[2],
                  ObjectNode(<<k, Key_id>>, <<v, Ref(NodeB(shape[1]))>>),
                  ArrayNode(<<Str("s3cr3t"), Ref(NodeA(shape[1]))>>)),
              Ref(1)) :
        k \in {Key_Pwd, Key_d},
        v \in {Str("s3cr3t"), Str("hunter2"), Ref(NodeB(shape[1]))}}

\* the pairs of calls the host program makes: any two methods, the same
\* message or two messages, with data of one shape or no object at all (the
\* omitted argument and the empty string, both falsy).  The second shape
\* puts the entries of the object at the depth ceiling.
LogQueues ==
    LET LogPrimitives ==
            {LogValue(<<>>, UndefinedValue), LogValue(<<>>, Str(""))}
    IN  UNION {{<<LogCall(l[1], "request failed", d[1]),
                  LogCall(l[2], m, d[2])>> :
                   l \in {"debug", "info", "warn", "error"}
                           \X {"debug", "info", "warn", "error"},
                   d \in (LogObjects(shape) \cup LogPrimitives)
                           \X (LogObjects(shape) \cup LogPrimitives)} :
               shape \in {<<0, FALSE>>, <<MaxDepth - 1, TRUE>>},
               m \in {"request failed", "giving up"}}

InitLog ==
    /\ config = [maxRetries |-> Num(MaxRetriesBound), delayMs |-> 0,
                 backoffMultiplier |-> 1]
    /\ logLevel \in LogLevelValues
    /\ pc = "idle"
    /\ attempt = 0
    /\ lastError = null
    /\ calls = 0
    /\ raised = null
    /\ delays = <<>>
    /\ timer = 0
    /\ outcome = null
    /\ console = <<>>
    /\ errorLog = <<>>
    /\ probe = NoProbe
    /\ maskFields \in MaskFieldsValues
    /\ heap = <<>>
    /\ root = UndefinedValue
    /\ seenObjects = {}
    /\ masked = NoMasked
    /\ remasked = NoMasked
    /\ repeated = NoRepeat
    /\ maskCalls = 0
    /\ logQueue \in LogQueues
    /\ logReturns = <<>>
    /\ cliRun = NoRun
    /\ exitCode = NoExit
    /\ strCall = NoStrCall

NextLog ==
    \/ LogDebug
    \/ LogInfo
    \/ LogWarn
    \/ LogError

SpecLog == InitLog /\ [][NextLog]_vars

(***************************************************************************)
(* SpecCli: one run of a command-line entry point.  cliRun tells which     *)
(* entry point runs, whether help was asked for (or, for query and         *)
(* metadata, no argument given), whether ODATA_SERVICE is configured, and  *)
(* how the body of its try block ends: it resolves, or it is rejected with *)
(* the failure `error` (a failed Config.validate, or what the runner or    *)
(* executeWithRetry threw).                                                *)
(***************************************************************************)
CliNames == {"query", "metadata", "list-services", "test-connection"}

\* the three main functions (query: part_002 459-505, metadata: part_002
\* 221-256, list-services: list-services.ts 60-93): exit 0 after help or a
\* run that resolved, exit classifyError(error).code from the catch block
mainExit(run) ==
    IF run.ended = "rejected" THEN classifyError(run.error).code ELSE 0

\* test-connection.ts 11-131: exit 1 when ODATA_SERVICE is not configured
\* (line 45) and from the catch block (line 129), exit 0 at the end of the
\* tests (line 108)
testConnectionExit(run) ==
    IF run.ended = "rejected" THEN 1
    ELSE IF ~run.hasService THEN 1
    ELSE 0

\* main of the query entry point
QueryMain ==
    /\ cliRun.cli = "query"
    /\ exitCode = NoExit
    /\ exitCode' = mainExit(cliRun)
    /\ UNCHANGED <<cliRun, execVars, probe, maskVars, logVars, textVars>>

\* main of the metadata entry point
MetadataMain ==
    /\ cliRun.cli = "metadata"
    /\ exitCode = NoExit
    /\ exitCode' = mainExit(cliRun)
    /\ UNCHANGED <<cliRun, execVars, probe, maskVars, logVars, textVars>>

\* main of the list-services entry point
ListServicesMain ==
    /\ cliRun.cli = "list-services"
    /\ exitCode = NoExit
    /\ exitCode' = mainExit(cliRun)
    /\ UNCHANGED <<cliRun, execVars, probe, maskVars, logVars, textVars>>

\* testConnection
testConnection ==
    /\ cliRun.cli = "test-connection"
    /\ exitCode = NoExit
    /\ exitCode' = testConnectionExit(cliRun)
    /\ UNCHANGED <<cliRun, execVars, probe, maskVars, logVars, textVars>>

\* the runs: a failure is raised before help is looked at (Config.validate)
\* or by the run itself; help and a missing ODATA_SERVICE end the run early
CliRuns ==
    {[cli |-> c, help |-> h, hasService |-> sv, ended |-> "resolved",
      error |-> null] : c \in CliNames, h \in BOOLEAN, sv \in BOOLEAN}
    \cup {[cli |-> c, help |-> FALSE, hasService |-> TRUE,
           ended |-> "rejected", error |-> e] :
             c \in CliNames,
             e \in ErrorObjects(1, ErrorCodes, Statuses) \cup {TypeErrorValue}}

InitCli ==
    /\ config = [maxRetries |-> Num(MaxRetriesBound), delayMs |-> 0,
                 backoffMultiplier |-> 1]
    /\ logLevel = "info"
    /\ pc = "idle"
    /\ attempt = 0
    /\ lastError = null
    /\ calls = 0
    /\ raised = null
    /\ delays = <<>>
    /\ timer = 0
    /\ outcome = null
    /\ console = <<>>
    /\ errorLog = <<>>
    /\ probe = NoProbe
    /\ MaskIdle
    /\ logQueue = <<>>
    /\ logReturns = <<>>
    /\ cliRun \in CliRuns
    /\ exitCode = NoExit
    /\ strCall = NoStrCall

NextCli ==
    \/ QueryMain
    \/ MetadataMain
    \/ ListServicesMain
    \/ testConnection

SpecCli == InitCli /\ [][NextCli]_vars

(***************************************************************************)
(* SpecText: the string functions of SecureLogger, stripUrlCredentials and *)
(* maskString, each applied to one text.  Texts are sequences of           *)
(* characters and the regular expressions are matched as JavaScript        *)
(* matches them: leftmost, greedy, with backtracking.                      *)
(***************************************************************************)
\* the first index from i on at which text holds a character of `chars`,
\* 0 when there is none
FirstOf(text, i, chars) ==
    LET hits == {j \in i..Len(text) : text[j] \in chars}
    IN  IF hits = {} THEN 0 ELSE CHOOSE j \in hits : \A k \in hits : j <= k

\* text holds `word` (given in lower case) at index i, whatever the case
StartsWith(text, i, word) ==
    /\ i + Len(word) - 1 <= Len(text)
    /\ toLowerCase(SubSeq(text, i, i + Len(word) - 1)) = word

\* (https?:\/\/) with flag i at index i: the length of the match, 0 for none
SchemeAt(url, i) ==
    IF StartsWith(url, i, <<"h", "t", "t", "p", "s", ":", "/", "/">>) THEN 8
    ELSE IF StartsWith(url, i, <<"h", "t", "t", "p", ":", "/", "/">>) THEN 7
    ELSE 0

\* line 127, urlPattern /(https?:\/\/)([^:]+):([^@]+)@/i tried at index i:
\* the scheme, one or more characters up to the first ':' after it, one or
\* more characters up to the first '@' after that ':'
urlPatternAt(url, i) ==
    LET n == SchemeAt(url, i)
        colon == FirstOf(url, i + n, {":"})
        at == IF colon = 0 THEN 0 ELSE FirstOf(url, colon + 1, {"@"})
    IN  [ok |-> n > 0 /\ colon > i + n /\ at > colon + 1,
         scheme |-> n, end |-> at]

\* the replacement text of line 128 after $1
RedactedUserinfo == <<"*", "*", "*", ":", "*", "*", "*", "@">>

\* lines 124-133, stripUrlCredentials(url): the leftmost match of urlPattern
\* is replaced by its scheme and '***:***@'
stripUrlCredentials(url) ==
    LET starts == {i \in 1..Len(url) : urlPatternAt(url, i).ok}
    IN  IF starts = {} THEN url
        ELSE LET i == CHOOSE j \in starts : \A k \in starts : j <= k
                 m == urlPatternAt(url, i)
             IN  SubSeq(url, 1, i + m.scheme - 1) \o RedactedUserinfo
                     \o SubSeq(url, m.end + 1, Len(url))

\* the URLs of SpecText: scheme, userinfo, host, port and the rest
Urls ==
    LET schemes ==
            {<<"h", "t", "t", "p", "s", ":", "/", "/">>,
             <<"h", "t", "t", "p", ":", "/", "/">>,
             <<"H", "T", "T", "P", "S", ":", "/", "/">>,
             <<"f", "t", "p", ":", "/", "/">>}
        userinfos ==
            {<<>>,
             <<"a", "l", "i", "c", "e", ":", "s", "3", "c", "r", "3", "t", "@">>,
             <<"a", "l", "i", "c", "e", "@">>}
        host == <<"h", "o", "s", "t">>
        ports == {<<>>, <<":", "8", "4", "4", "3">>}
        rests ==
            {<<>>, <<"/", "p", "a", "t", "h">>,
             <<"/", "p", "a", "t", "h", "?", "m", "a", "i", "l", "=", "a", "@", "b", ".", "c">>}
    IN  {sc \o ui \o host \o po \o re :
            sc \in schemes, ui \in userinfos, po \in ports, re \in rests}

\* stripUrlCredentials is applied to a URL
StripUrlCredentials ==
    /\ strCall = NoStrCall
    /\ \E url \in Urls :
          strCall' = [fn |-> "stripUrlCredentials", input |-> url,
                      output |-> stripUrlCredentials(url)]
    /\ UNCHANGED <<execVars, probe, maskVars, logVars, cliVars>>

\* \s, \w and the quotes of the patterns of maskString
Spaces == {" ", "\t", "\n"}
WordChars ==
    {UpperCase[i] : i \in 1..Len(UpperCase)}
    \cup {LowerCase[i] : i \in 1..Len(LowerCase)} \cup {"_"}
    \cup {"0", "1", "2", "3", "4", "5", "6", "7", "8", "9"}
Quotes == {"'", "\""}

\* the last index of the longest run, from index i on, of characters that
\* are in `chars` (inside) or not in it (~inside); i - 1 for the empty run
RunEnd(text, i, inside, chars) ==
    LET stops == {j \in i..Len(text) : (text[j] \in chars) # inside}
    IN  IF stops = {} THEN Len(text)
        ELSE (CHOOSE j \in stops : \A k \in stops : j <= k) - 1

\* an alternation of keys with flag i at index i: the length of the key
\* matched, 0 for none (no two keys of a pattern match at the same place)
KeyAt(text, i, keys) ==
    LET found == {k \in keys : StartsWith(text, i, k)}
    IN  IF found = {} THEN 0 ELSE Len(CHOOSE k \in found : TRUE)

\* the redaction token in a text
MaskedText == <<"*", "*", "*", "M", "A", "S", "K", "E", "D", "*", "*", "*">>

NoMatch == [ok |-> FALSE, end |-> 0, out |-> <<>>]

\* lines 144 and 146, /\b(keys)\s+(is|:)?\s+(\S+)/gi tried at index i, with
\* the replacement '$1 $2 ***MASKED***'.  After the key and its run of
\* white space either 'is' or ':' follows, then white space and the value;
\* or, the group left empty, the run of white space serves both \s+ (it
\* then has two characters at least) and the value follows it.
wordPatternAt(text, i, keys) ==
    LET n == KeyAt(text, i, keys)
        boundary == i = 1 \/ text[i - 1] \notin WordChars
        p == i + n
        q == RunEnd(text, p, TRUE, Spaces) + 1
        g == IF StartsWith(text, q, <<"i", "s">>) THEN 2
             ELSE IF q <= Len(text) /\ text[q] = ":" THEN 1
             ELSE 0
        r == RunEnd(text, q + g, TRUE, Spaces) + 1
        v == RunEnd(text, r, FALSE, Spaces)
        vEmpty == RunEnd(text, q, FALSE, Spaces)
    IN  IF n = 0 \/ ~boundary \/ q = p THEN NoMatch
        ELSE IF g > 0 /\ r > q + g /\ v >= r
        THEN [ok |-> TRUE, end |-> v,
              out |-> SubSeq(text, i, p - 1) \o <<" ">>
                        \o SubSeq(text, q, q + g - 1) \o <<" ">>
                        \o MaskedText]
        ELSE IF q - p >= 2 /\ vEmpty >= q
        THEN [ok |-> TRUE, end |-> vEmpty,
              out |-> SubSeq(text, i, p - 1) \o <<" ", " ">> \o MaskedText]
        ELSE NoMatch

\* lines 148-154, /(keys)[=:]\s*['"]?([^'"\s]+)['"]?/gi tried at index i,
\* with the replacement '$1=***MASKED***'
assignPatternAt(text, i, keys) ==
    LET n == KeyAt(text, i, keys)
        p == i + n
        q == RunEnd(text, p + 1, TRUE, Spaces) + 1
        open == IF q <= Len(text) /\ text[q] \in Quotes THEN q + 1 ELSE q
        v == RunEnd(text, open, FALSE, Spaces \cup Quotes)
        close == IF v + 1 <= Len(text) /\ text[v + 1] \in Quotes THEN v + 1
                 ELSE v
    IN  IF n > 0 /\ p <= Len(text) /\ text[p] \in {"=", ":"} /\ v >= open
        THEN [ok |-> TRUE, end |-> close,
              out |-> SubSeq(text, i, p - 1) \o <<"=">> \o MaskedText]
        ELSE NoMatch

RECURSIVE replaceFrom(_, _, _, _)
\* line 158, String.prototype.replace with a global pattern, from index i
\* on: every match, leftmost first and not overlapping, is replaced
replaceFrom(text, i, word, keys) ==
    IF i > Len(text) THEN <<>>
    ELSE LET m == IF word THEN wordPatternAt(text, i, keys)
                  ELSE assignPatternAt(text, i, keys)
         IN  IF m.ok THEN m.out \o replaceFrom(text, m.end + 1, word, keys)
             ELSE <<text[i]>> \o replaceFrom(text, i + 1, word, keys)

\* lines 138-162, maskString(text): the six patterns of lines 142-155
\* (their keys in lower case) applied in order
maskString(text) ==
    LET PasswordKeys ==
            {<<"p", "a", "s", "s", "w", "o", "r", "d">>,
             <<"p", "a", "s", "s", "w", "d">>, <<"p", "w", "d">>}
        TokenKeys ==
            {<<"t", "o", "k", "e", "n">>,
             <<"a", "u", "t", "h", "_", "t", "o", "k", "e", "n">>,
             <<"a", "c", "c", "e", "s", "s", "_", "t", "o", "k", "e", "n">>}
        ApiKeyKeys ==
            {<<"a", "p", "i", "k", "e", "y">>,
             <<"a", "p", "i", "_", "k", "e", "y">>,
             <<"a", "p", "i", "-", "k", "e", "y">>}
        SecretKeys ==
            {<<"s", "e", "c", "r", "e", "t">>,
             <<"a", "p", "i", "_", "s", "e", "c", "r", "e", "t">>}
        m1 == replaceFrom(text, 1, TRUE, PasswordKeys)
        m2 == replaceFrom(m1, 1, TRUE, TokenKeys)
        m3 == replaceFrom(m2, 1, FALSE, PasswordKeys)
        m4 == replaceFrom(m3, 1, FALSE, TokenKeys)
        m5 == replaceFrom(m4, 1, FALSE, ApiKeyKeys)
    IN  replaceFrom(m5, 1, FALSE, SecretKeys)

\* the texts of SpecText: a key in lower or upper case, a separator, a
\* value and what follows it
TextValue == <<"h", "u", "n", "t", "e", "r", "2">>
Texts ==
    LET keys ==
            {<<"p", "a", "s", "s", "w", "o", "r", "d">>,
             <<"p", "a", "s", "s", "w", "d">>, <<"p", "w", "d">>,
             <<"t", "o", "k", "e", "n">>,
             <<"a", "c", "c", "e", "s", "s", "_", "t", "o", "k", "e", "n">>,
             <<"a", "p", "i", "_", "k", "e", "y">>,
             <<"s", "e", "c", "r", "e", "t">>,
             <<"P", "A", "S", "S", "W", "O", "R", "D">>,
             <<"P", "A", "S", "S", "W", "D">>, <<"P", "W", "D">>,
             <<"T", "O", "K", "E", "N">>,
             <<"A", "C", "C", "E", "S", "S", "_", "T", "O", "K", "E", "N">>,
             <<"A", "P", "I", "_", "K", "E", "Y">>,
             <<"S", "E", "C", "R", "E", "T">>}
        separators ==
            {<<" ", "=", " ">>, <<"=">>, <<":", " ">>,
             <<" ", "i", "s", " ">>}
        rests ==
            {<<>>,
             <<" ", "f", "o", "r", " ", "u", "s", "e", "r", " ", "b", "o", "b">>}
    IN  {k \o sep \o TextValue \o rest :
            k \in keys, sep \in separators, rest \in rests}

\* maskString is applied to a text
MaskString ==
    /\ strCall = NoStrCall
    /\ \E text \in Texts :
          strCall' = [fn |-> "maskString", input |-> text,
                      output |-> maskString(text)]
    /\ UNCHANGED <<execVars, probe, maskVars, logVars, cliVars>>

InitText ==
    /\ config = [maxRetries |-> Num(MaxRetriesBound), delayMs |-> 0,
                 backoffMultiplier |-> 1]
    /\ logLevel = "info"
    /\ pc = "idle"
    /\ attempt = 0
    /\ lastError = null
    /\ calls = 0
    /\ raised = null
    /\ delays = <<>>
    /\ timer = 0
    /\ outcome = null
    /\ console = <<>>
    /\ errorLog = <<>>
    /\ probe = NoProbe
    /\ MaskIdle
    /\ LogIdle

NextText ==
    \/ StripUrlCredentials
    \/ MaskString

SpecText == InitText /\ [][NextText]_vars

(***************************************************************************)
(* Properties of executeWithRetry (checked under Spec).                    *)
(***************************************************************************)
Terminal == pc \in {"returned", "thrown"}

\* maxRetries as the number of attempts it allows: none when it is NaN or
\* not positive
AllowedAttempts ==
    IF config.maxRetries.nan \/ config.maxRetries.v < 0 THEN 0
    ELSE config.maxRetries.v

\* the latest attempt has settled by raising an object (not null/undefined)
RaisedObject == calls >= 1 /\ raised.tag = "object" /\ raised.id = calls

C1_Bound == calls <= AllowedAttempts
C1_Over == Terminal => (Terminal' /\ calls' = calls /\ outcome' = outcome)

\* C1: in one executeWithRetry invocation the closure is invoked at most
\* maxRetries times (never, when maxRetries is not a positive number),
\* whatever the attempts' outcomes are, and once the invocation has returned
\* or thrown it stays over and the closure is not invoked again.
C1_AtMostMaxRetries == []C1_Bound /\ [][C1_Over]_vars

\* C1 witness: an invocation that ended after using all of its 3 attempts
C1_Witness ==
    pc = "thrown" /\ config.maxRetries = Num(3) /\ calls = 3

\* C2: for maxRetries = N >= 1, when every attempt fails with a retryable
\* error the closure has been invoked exactly N times when the invocation
\* throws, exactly N-1 delays were taken, and the thrown value is the error
\* raised by the N-th attempt.  (An invocation that throws after a retryable
\* failure has seen only retryable failures: any other outcome ends it.)
C2_ExhaustsExactly ==
    (pc = "thrown" /\ RaisedObject /\ shouldRetry(raised)) =>
        /\ ~config.maxRetries.nan
        /\ config.maxRetries.v >= 1
        /\ calls = config.maxRetries.v
        /\ Len(delays) = config.maxRetries.v - 1
        /\ outcome = raised
        /\ outcome.id = config.maxRetries.v

\* C2 witness: three retryable failures with maxRetries = 3
C2_Witness ==
    /\ pc = "thrown" /\ RaisedObject /\ shouldRetry(raised)
    /\ config.maxRetries = Num(3) /\ calls = 3 /\ Len(delays) = 2

\* C3: when attempt k fails with an error shouldRetry rejects, the invocation
\* has failed at once: it has thrown that error, attempt k is the last call
\* of the closure whatever maxRetries is, and only the k-1 delays before the
\* earlier attempts were taken (none, when k = 1).
C3_FailFast ==
    (RaisedObject /\ ~shouldRetry(raised)) =>
        /\ pc = "thrown"
        /\ outcome = raised
        /\ calls = raised.id
        /\ Len(delays) = calls - 1
        /\ (attempt = 1 => calls = 1 /\ delays = <<>>)

\* C3 witness: HTTP 401 on the first attempt although 3 attempts are allowed
C3_Witness ==
    /\ pc = "thrown" /\ RaisedObject /\ raised.hasResponse
    /\ raised.status = 401 /\ raised.code = ""
    /\ calls = 1 /\ config.maxRetries = Num(3)

\* C4: whenever executeWithRetry ends in failure after an attempt, the value
\* it throws is the very value the last attempt raised, for every kind of
\* raised value (with a network code, with an HTTP response, with neither,
\* null or undefined).
C4_ThrowsRaised ==
    (pc = "thrown" /\ calls >= 1) => outcome = raised

\* C7: the exit code of a classified error depends only on the failure's
\* network code and HTTP status: for the raised failure e and every retry
\* attempt number n, createErrorDetails(e, n).code = classifyError(e).code,
\* which is also the code of e with any other message; and every entry
\* executeWithRetry logged with error details (console or error log file)
\* carries that code, at whatever attempt it was logged.
C7_CodeIgnoresAttempt ==
    RaisedObject =>
        /\ \A n \in 0..MaxAttemptArg :
              createErrorDetails(raised, n).code = classifyError(raised).code
        /\ \A m \in Messages :
              classifyError([raised EXCEPT !.message = m]).code
                  = classifyError(raised).code
        /\ \A i \in 1..Len(console) :
              console[i].data.kind = "details" =>
                  console[i].data.details.code = classifyError(raised).code
        /\ \A i \in 1..Len(errorLog) :
              errorLog[i].data.details.code = classifyError(raised).code

\* C7 witness: a network failure logged at attempt 3 with exit code 3
C7_Witness ==
    /\ pc = "thrown" /\ RaisedObject /\ calls = 3
    /\ Len(errorLog) = 1
    /\ errorLog[1].data.details.retryAttempt = 3
    /\ errorLog[1].data.details.code = 3

\* C8: the delay taken before attempt n (2 <= n <= maxRetries) is
\* min(delayMs * backoffMultiplier^(n-2), 30000) ms, so no delay exceeds
\* 30000 ms.
C8_DelayBeforeAttempt ==
    /\ Len(delays) <= calls
    /\ \A n \in 2..(Len(delays) + 1) :
          /\ delays[n - 1] =
                 Min(config.delayMs * Pow(config.backoffMultiplier, n - 2),
                     30000)
          /\ delays[n - 1] <= 30000
    /\ pc = "sleeping" => timer = delays[Len(delays)]

\* C8 witness: the second delay was cut to the ceiling, the first was not
C8_Witness ==
    /\ Len(delays) = 2 /\ calls = 3
    /\ config.delayMs = 20000 /\ config.backoffMultiplier = 2
    /\ delays[1] = 20000 /\ delays[2] = 30000

(***************************************************************************)
(* Properties of the pure functions (checked under SpecPure).              *)
(***************************************************************************)
\* C5: shouldRetry(error) is true when error.code is one of the four network
\* codes, whatever response the error carries; otherwise it is true exactly
\* when a response is present with status >= 500 or status = 429; in every
\* other case it is false.
C5_ShouldRetryPolicy ==
    (probe.fn = "shouldRetry" /\ ~probe.threw) =>
        LET e == probe.error
        IN  /\ e.code \in {"ECONNREFUSED", "ETIMEDOUT", "ENOTFOUND",
                           "ENETUNREACH"} => probe.retry = TRUE
            /\ e.code \notin {"ECONNREFUSED", "ETIMEDOUT", "ENOTFOUND",
                              "ENETUNREACH"} =>
                  (probe.retry <=>
                      (e.hasResponse /\ (e.status >= 500 \/ e.status = 429)))

\* C5 witness: a network code beside a 404 response is retried
C5_Witness ==
    /\ probe.fn = "shouldRetry" /\ probe.retry
    /\ probe.error.code = "ENOTFOUND"
    /\ probe.error.hasResponse /\ probe.error.status = 404

\* the row of the classification table a failure belongs to, in table order
C6_Row(e) ==
    IF e.code \in {"ECONNREFUSED", "ETIMEDOUT", "ENOTFOUND", "ENETUNREACH"}
    THEN "network"
    ELSE IF e.hasResponse /\ e.status = 401 THEN "authentication"
    ELSE IF e.hasResponse /\ e.status = 403 THEN "authorization"
    ELSE IF e.hasResponse /\ e.status >= 400 THEN "http"
    ELSE "other"

\* C6: classifyError maps a failure to the row of the table it belongs to:
\* network code -> 3 and "Network error: ..."; 401 -> 2 and the
\* authentication message; 403 -> 2 and the authorization message; another
\* status >= 400 -> 1 and the message or "HTTP error <status>"; anything
\* else -> 1 and the message or "Unknown error".  The code is 1, 2 or 3.
C6_ClassifyTable ==
    (probe.fn = "classifyError" /\ ~probe.threw) =>
        LET e == probe.error
            d == probe.details
            row == C6_Row(e)
        IN  /\ d.code \in {1, 2, 3}
            /\ row = "network" =>
                  /\ d.code = 3
                  /\ \E detail \in (Messages \ {""}) \cup {"Connection failed"} :
                        d.message = "Network error: " \o detail
            /\ row = "authentication" =>
                  /\ d.code = 2
                  /\ d.message = "Authentication failed: Invalid credentials"
            /\ row = "authorization" =>
                  /\ d.code = 2
                  /\ d.message = "Authorization failed: Insufficient permissions"
            /\ row = "http" =>
                  /\ d.code = 1
                  /\ d.message = IF e.message # "" THEN e.message
                                 ELSE "HTTP error " \o ToString(e.status)
            /\ row = "other" =>
                  /\ d.code = 1
                  /\ d.message = IF e.message # "" THEN e.message
                                 ELSE "Unknown error"

\* C6 witness: a 401 response beside a network code is a network error
C6_Witness ==
    /\ probe.fn = "classifyError" /\ probe.details.code = 3
    /\ probe.error.hasResponse /\ probe.error.status = 401
    /\ probe.details.message = "Network error: Connection failed"

\* C9: for delayMs >= 0 and backoffMultiplier >= 1, calculateDelay(a) <=
\* calculateDelay(a + 1) for every attempt a >= 1, and calculateDelay(a) <=
\* 30000.
C9_DelayMonotone ==
    (probe.fn = "calculateDelay" /\ config.delayMs >= 0
        /\ config.backoffMultiplier >= 1) =>
        /\ probe.delay <= probe.next
        /\ probe.delay <= 30000
        /\ probe.next <= 30000

\* C9 witness: a delay that grows up to the ceiling
C9_Witness ==
    /\ probe.fn = "calculateDelay" /\ config.delayMs = 29999
    /\ config.backoffMultiplier = 2
    /\ probe.delay = 29999 /\ probe.next = 30000

(***************************************************************************)
(* C10 (SpecMask): the masking of keys.                                    *)
(***************************************************************************)
\* the lowercased key contains a configured mask field, compared without
\* regard to case
C10_Matches(key) ==
    \E f \in {maskFields[i] : i \in 1..Len(maskFields)} :
        \E i \in 0..(Len(key) - Len(f)) :
            \A j \in 1..Len(f) : LowerChar(key[i + j]) = LowerChar(f[j])

RECURSIVE C10_Masked(_, _, _)
\* the input value v at nesting depth `depth` and the output value o at the
\* same place: within the depth ceiling an object or array of the input is
\* either cut off as a circular reference or copied entry by entry, every
\* matching key of an object holding the redaction marker and every other
\* entry obeying the same rule one level deeper
C10_Masked(v, o, depth) ==
    \/ depth > MaxDepth
    \/ v.t # "ref"
    \/ o = CircularMarker
    \/ /\ o.t = "ref"
       /\ o.n \in DOMAIN masked.out
       /\ LET node == heap[v.n]
              copy == masked.out[o.n]
          IN  /\ copy.arr = node.arr
              /\ copy.keys = node.keys
              /\ Len(copy.vals) = Len(node.vals)
              /\ \A i \in 1..Len(node.vals) :
                    IF ~node.arr /\ C10_Matches(node.keys[i])
                    THEN copy.vals[i] = MaskedMarker
                    ELSE C10_Masked(node.vals[i], copy.vals[i], depth + 1)

\* C10: for every input of maskSensitiveData and every object in it that
\* lies within the depth ceiling, each own key whose lowercased name
\* contains a configured mask field (compared case-insensitively) has the
\* value '***MASKED***' in the output, at any nesting depth and inside
\* arrays as well as objects.
C10_MatchingKeysMasked ==
    maskCalls = 1 => C10_Masked(root, masked.val, 0)

\* an object at the depth ceiling itself, below MaxDepth nested arrays, whose
\* key "Pwd" matches the mask field "PWD" and comes out redacted
C10_Witness ==
    /\ maskCalls = 1
    /\ maskFields = <<<<"t", "o", "k", "e", "n">>, <<"P", "W", "D">>>>
    /\ Len(heap) = MaxDepth + 2
    /\ heap[1].arr
    /\ ~heap[MaxDepth + 1].arr
    /\ Len(heap[MaxDepth + 1].keys) = 2
    /\ heap[MaxDepth + 1].keys[2] = Key_Pwd
    /\ heap[MaxDepth + 1].vals[2] = Str("s3cr3t")
    /\ CopyOf(MaxDepth + 1) \in DOMAIN masked.out
    /\ masked.out[CopyOf(MaxDepth + 1)].vals[2] = MaskedMarker
    /\ masked.out[CopyOf(MaxDepth + 1)].vals[1] # MaskedMarker

\* C16 (checked under Spec): when appending to the error log file fails,
\* logger.error does not raise to its caller: the failure is reported on
\* standard error and the call returns, so an executeWithRetry invocation
\* whose error logging cannot write the file still throws the operation's
\* original error and not a file-system error.  (An invocation that threw
\* after an attempt raised an object has called logger.error once, and the
\* file is empty exactly when that append failed.)
C16_AppendFailureNotRaised ==
    (pc = "thrown" /\ RaisedObject /\ errorLog = <<>>) =>
        /\ outcome = raised
        /\ outcome # FsErrorValue
        /\ Len(console) >= 2
        /\ console[Len(console)] = FailedWrite
        /\ console[Len(console) - 1].level = "error"
        /\ console[Len(console) - 1].data.kind = "details"

\* HTTP 404 on the first attempt and the file cannot be written: the entry
\* and the report are on the console and the 404 error is thrown
C16_Witness ==
    /\ pc = "thrown" /\ RaisedObject
    /\ raised.hasResponse /\ raised.status = 404
    /\ errorLog = <<>>
    /\ console[Len(console)] = FailedWrite
    /\ outcome = raised

\* the entries on the console that carry the classification detail of a
\* failure: an ErrorDetails with the stack and, for a failure with an HTTP
\* response, its status and payload
C18_FullEntries ==
    {i \in 1..Len(console) :
        /\ console[i].data.kind = "details"
        /\ console[i].data.details.hasDetails
        /\ console[i].data.details.details.stack
        /\ raised.hasResponse =>
              /\ console[i].data.details.details.hasStatus
              /\ console[i].data.details.details.data}

\* C18 (checked under Spec): every failed attempt inside executeWithRetry,
\* whether it is followed by a retry or is terminal, produces a log entry
\* carrying the full classification detail (HTTP status, masked response
\* payload, stack) before the next attempt starts or the error is
\* propagated, at every configured log level: once attempt number `calls`
\* has failed, `calls` attempts have failed and as many such entries are
\* on the console.
C18_EveryFailureLoggedInFull ==
    RaisedObject => Cardinality(C18_FullEntries) >= calls

RECURSIVE C12_Same(_, _, _, _)
\* the value v1 of heap h1 and the value v2 of heap h2 are structurally
\* equal: the same primitive, or objects with the same keys in the same
\* order (arrays with the same length) and structurally equal entries
C12_Same(h1, v1, h2, v2) ==
    IF v1.t # "ref" \/ v2.t # "ref" THEN v1 = v2
    ELSE /\ h1[v1.n].arr = h2[v2.n].arr
         /\ h1[v1.n].keys = h2[v2.n].keys
         /\ Len(h1[v1.n].vals) = Len(h2[v2.n].vals)
         /\ \A i \in 1..Len(h1[v1.n].vals) :
               C12_Same(h1, h1[v1.n].vals[i], h2, h2[v2.n].vals[i])

\* C12: masking is idempotent: for every data structure x (nested objects
\* and arrays, cyclic ones and ones deeper than the depth ceiling included)
\* maskSensitiveData(maskSensitiveData(x)) is structurally equal to
\* maskSensitiveData(x).
C12_Idempotent ==
    maskCalls = 2 =>
        C12_Same(masked.out, masked.val, remasked.out, remasked.val)

\* a cyclic input below two nested arrays, {Pwd: "s3cr3t", id: <the root>},
\* masked twice: both results are copies holding the redaction marker and
\* the circular-reference marker
C12_Witness ==
    /\ maskCalls = 2
    /\ Len(heap) = 4
    /\ heap[1].arr
    /\ heap[3] = ObjectNode(<<Key_Pwd, Key_id>>, <<Str("s3cr3t"), Ref(1)>>)
    /\ maskFields = <<<<"p", "w", "d">>>>
    /\ masked.out[CopyOf(3)].vals = <<MaskedMarker, CircularMarker>>
    /\ remasked.val = Ref(CopyOf(CopyOf(1)))
    /\ remasked.out[CopyOf(CopyOf(3))].vals = <<MaskedMarker, CircularMarker>>

RECURSIVE C13_Walk(_, _, _, _, _)
\* the traversal of the input value v at nesting depth `depth`, with o the
\* output at the same place and `path` the objects being visited (those the
\* place lies in): where v is one of them the output is the marker
\* '[Circular Reference]' or, when beyondCeiling allows it for a place
\* deeper than the ceiling, '[Max Depth Reached]'.  The traversal does not
\* enter the values of matching keys nor what the output cut off.
C13_Walk(v, o, path, depth, beyondCeiling) ==
    IF v.t # "ref" THEN TRUE
    ELSE IF v.n \in path
    THEN IF beyondCeiling /\ depth > MaxDepth THEN o = MaxDepthMarker
         ELSE o = CircularMarker
    ELSE IF o.t # "ref" THEN TRUE
    ELSE \A i \in 1..Len(heap[v.n].vals) :
            \/ ~heap[v.n].arr /\ C10_Matches(heap[v.n].keys[i])
            \/ C13_Walk(heap[v.n].vals[i], masked.out[o.n].vals[i],
                        path \cup {v.n}, depth + 1, beyondCeiling)

\* C13 as claimed: maskSensitiveData applied to a structure that contains a
\* cycle terminates without throwing, and the place where the traversal
\* meets an object that is already being visited holds the marker
\* '[Circular Reference]'.
C13_CycleMarked ==
    maskCalls >= 1 =>
        /\ masked # NoMasked
        /\ C13_Walk(root, masked.val, {}, 0, FALSE)

\* C13 as amended: the call returns, and the place where the traversal meets
\* an object that is already being visited holds '[Circular Reference]'
\* when the place is at depth MaxDepth or less and '[Max Depth Reached]'
\* when it is deeper.
C13_CycleMarkedWithinCeiling ==
    maskCalls >= 1 =>
        /\ masked # NoMasked
        /\ C13_Walk(root, masked.val, {}, 0, TRUE)

\* the object {id: <itself>, userpwd2: "s3cr3t"} below one array: the call
\* returned and the copy holds the circular-reference marker under id
C13_Witness ==
    /\ maskCalls = 1
    /\ Len(heap) = 3
    /\ heap[1].arr
    /\ heap[2] = ObjectNode(<<Key_id, Key_userpwd2>>,
                            <<Ref(2), Str("s3cr3t")>>)
    /\ masked.val = Ref(CopyOf(1))
    /\ masked.out[CopyOf(2)].vals[1] = CircularMarker

(***************************************************************************)
(* Properties of the logger (checked under SpecLog).                       *)
(***************************************************************************)
\* the host program has made both its calls
BothLogged == Len(logReturns) = 2

\* the log texts on the console, the reports of failed appends left out
ConsoleTexts == SelectSeq(console, LAMBDA e : e # FailedWrite)

\* the text itself of a printed text or of a line of the file
TextOf(e) == [level |-> e.level, message |-> e.message, data |-> e.data]

RECURSIVE C11_Alike(_, _, _, _, _)
\* the value v1 of heap h1 and the value v2 of heap h2 are the same down to
\* `fuel` levels (same primitives, same objects with the same keys and
\* elements) except for what is stored under keys matching a mask field
C11_Alike(h1, v1, h2, v2, fuel) ==
    IF fuel = 0 THEN TRUE
    ELSE IF v1.t # "ref" \/ v2.t # "ref" THEN v1 = v2
    ELSE /\ v1.n = v2.n
         /\ h1[v1.n].arr = h2[v2.n].arr
         /\ h1[v1.n].keys = h2[v2.n].keys
         /\ Len(h1[v1.n].vals) = Len(h2[v2.n].vals)
         /\ \A i \in 1..Len(h1[v1.n].vals) :
               \/ ~h1[v1.n].arr /\ C10_Matches(h1[v1.n].keys[i])
               \/ C11_Alike(h1, h1[v1.n].vals[i], h2, h2[v2.n].vals[i],
                            fuel - 1)

\* the two calls have the same level and message, and data that differ only
\* in the values stored under keys matching a mask field
C11_Twins ==
    /\ logQueue[1].level = logQueue[2].level
    /\ logQueue[1].message = logQueue[2].message
    /\ C11_Alike(logQueue[1].heap, logQueue[1].root,
                 logQueue[2].heap, logQueue[2].root, MaxDepth + 2)

\* C11: no original sensitive value reaches the console or the error log:
\* two logger calls with the same level and message whose data differ only
\* in the values stored under keys matching a configured mask field write
\* the same text to the console and to the error log file.
C11_MaskedValuesDoNotShow ==
    (BothLogged /\ C11_Twins) =>
        /\ \A i, j \in 1..Len(ConsoleTexts) :
              ConsoleTexts[i] = ConsoleTexts[j]
        /\ \A i \in 1..Len(errorLog), j \in 1..Len(ConsoleTexts) :
              errorLog[i] = TextOf(ConsoleTexts[j])

\* two error calls whose data hold "s3cr3t" and "hunter2" under the key
\* "Pwd", masked by the field "PWD", both printed and both appended
C11_Witness ==
    /\ BothLogged
    /\ C11_Twins
    /\ maskFields = <<<<"t", "o", "k", "e", "n">>, <<"P", "W", "D">>>>
    /\ logQueue[1].level = "error"
    /\ logQueue[1].root = Ref(1)
    /\ Len(logQueue[1].heap) = 2
    /\ logQueue[1].heap[1].keys[1] = Key_Pwd
    /\ logQueue[1].heap[1].vals[1] = Str("s3cr3t")
    /\ logQueue[2].heap[1].vals[1] = Str("hunter2")
    /\ Len(ConsoleTexts) = 2
    /\ Len(errorLog) = 2
    /\ errorLog[1].data.t = "object"
    /\ errorLog[1].data.items[1] = JsonString(MaskedMarker.s)

\* the place of a level in the order debug < info < warn < error
C14_Rank(level) ==
    CASE level = "debug" -> 0
      [] level = "info" -> 1
      [] level = "warn" -> 2
      [] level = "error" -> 3

\* one logger call: below the threshold neither the console nor the file
\* changes; at or above it the console gains the call's log entry, and
\* nothing else but the report of a failed append after it
C14_Call ==
    logLevel \in {"debug", "info", "warn", "error"} =>
        IF C14_Rank(NextCall.level) < C14_Rank(logLevel)
        THEN console' = console /\ errorLog' = errorLog
        ELSE /\ Len(console') > Len(console)
             /\ SubSeq(console', 1, Len(console)) = console
             /\ console'[Len(console) + 1].level = toUpperCase(NextCall.level)
             /\ console'[Len(console) + 1].message = NextCall.message
             /\ console'[Len(console) + 1] # FailedWrite
             /\ \A i \in (Len(console) + 2)..Len(console') :
                   console'[i] = FailedWrite
             /\ Len(ConsoleTexts') = Len(ConsoleTexts) + 1

\* C14: with levels ordered debug < info < warn < error, a call to debug,
\* info, warn or error writes nothing to the console and nothing to the
\* error log file when its level is below the configured threshold, and
\* writes exactly one console entry when its level is at or above it.
C14_Threshold == [][C14_Call]_vars

\* threshold warn: info was called and wrote nothing, then warn was called
\* and wrote its one entry
C14_Witness ==
    /\ logLevel = "warn"
    /\ BothLogged
    /\ logQueue[1].level = "info"
    /\ logQueue[2].level = "warn"
    /\ Len(console) = 1
    /\ console[1].level = "WARN"
    /\ console[1].stream = "stderr"
    /\ errorLog = <<>>

\* the calls made so far, by their place in logQueue
CallsMade == [k \in 1..Len(logReturns) |-> k]

\* the error-level calls made so far (error is the highest level, so each
\* of them passed the threshold), and those of them whose append succeeded
C15_ErrorCalls == SelectSeq(CallsMade, LAMBDA k : logQueue[k].level = "error")
C15_Appended == SelectSeq(CallsMade, LAMBDA k : logReturns[k].append = "ok")

\* the file holds one entry per call of `made`, in order: its level tag, its
\* message and, when the call had truthy data, a JSON text
C15_FileHolds(made) ==
    /\ Len(errorLog) = Len(made)
    /\ \A j \in 1..Len(made) :
          /\ errorLog[j].level = "ERROR"
          /\ errorLog[j].message = logQueue[made[j]].message
          /\ (errorLog[j].data = NoText) = ~Truthy(logQueue[made[j]].root)

\* one step leaves the entries of the file in place and adds at most one
C15_AppendOnly ==
    /\ Len(errorLog') \in {Len(errorLog), Len(errorLog) + 1}
    /\ SubSeq(errorLog', 1, Len(errorLog)) = errorLog

\* C15 as claimed: after any sequence of logger calls the error log file
\* has received exactly one appended entry per error-level call that passed
\* the threshold, in call order, and no entry from a debug, info or warn
\* call; entries already in the file are never rewritten or removed.
C15_OneEntryPerErrorCall ==
    [](C15_FileHolds(C15_ErrorCalls)) /\ [][C15_AppendOnly]_vars

\* C15 as amended: exactly one appended entry per error-level call whose
\* append to the file did not fail, in call order, none from a debug, info
\* or warn call, and entries already in the file are never rewritten or
\* removed.
C15_OneEntryPerAppend ==
    /\ [](C15_FileHolds(C15_Appended))
    /\ [](\A k \in 1..Len(logReturns) :
             (logReturns[k].append # "none") = (logQueue[k].level = "error"))
    /\ [][C15_AppendOnly]_vars

\* two error calls with different messages, both appended: the file holds
\* the two entries in call order
C15_Witness ==
    /\ BothLogged
    /\ logQueue[1].level = "error"
    /\ logQueue[2].level = "error"
    /\ logQueue[2].message = "giving up"
    /\ Len(errorLog) = 2
    /\ errorLog[1].message = "request failed"
    /\ errorLog[2].message = "giving up"
    /\ errorLog[2].data # NoText

(***************************************************************************)
(* Properties of the entry points (checked under SpecCli).                 *)
(***************************************************************************)
\* C17: every CLI entry point (query, metadata, list-services,
\* test-connection) whose run ends in a failure terminates the process with
\* the exit code that classifyError assigns to that failure (3 for a
\* network error, 2 for HTTP 401 or 403, 1 otherwise), and terminates with
\* 0 when the run succeeds.
C17_ExitCodeClassified ==
    exitCode # NoExit =>
        IF cliRun.ended = "rejected"
        THEN exitCode = classifyError(cliRun.error).code
        ELSE cliRun.hasService => exitCode = 0

(***************************************************************************)
(* Properties of the string functions (checked under SpecText).            *)
(***************************************************************************)
\* the index of the '@' that ends a 'user:password@' userinfo segment of an
\* http(s) URL, 0 when the URL has none: the authority runs from the scheme
\* to the first '/', '?' or '#', and the userinfo is what it holds before
\* its '@', a user and a password separated by ':'
C19_UserinfoEnd(url) ==
    LET n == SchemeAt(url, 1)
        stop == FirstOf(url, n + 1, {"/", "?", "#"})
        last == IF stop = 0 THEN Len(url) ELSE stop - 1
        at == FirstOf(SubSeq(url, 1, last), n + 1, {"@"})
        colon == FirstOf(SubSeq(url, 1, last), n + 1, {":"})
    IN  IF n > 0 /\ at > 0 /\ colon > n + 1 /\ colon + 1 < at THEN at ELSE 0

\* the URL with its userinfo segment, if it has one, replaced by '***:***@'
C19_Redacted(url) ==
    LET at == C19_UserinfoEnd(url)
    IN  IF at = 0 THEN url
        ELSE SubSeq(url, 1, SchemeAt(url, 1)) \o RedactedUserinfo
                \o SubSeq(url, at + 1, Len(url))

\* C19: stripUrlCredentials replaces the 'user:password@' userinfo segment
\* of an http(s) URL by '***:***@' and changes nothing else; a URL without
\* a userinfo segment, one with a port and an '@' later in its path or query
\* included, is returned unchanged.
C19_OnlyUserinfoRedacted ==
    strCall.fn = "stripUrlCredentials" =>
        strCall.output = C19_Redacted(strCall.input)

\* `word` occurs in `text`
C20_Includes(text, word) ==
    \E i \in 1..Len(text) :
        /\ i + Len(word) - 1 <= Len(text)
        /\ SubSeq(text, i, i + Len(word) - 1) = word

\* what follows the value in `text`
C20_Rest(text) ==
    LET i == CHOOSE j \in 1..Len(text) :
                 /\ j + Len(TextValue) - 1 <= Len(text)
                 /\ SubSeq(text, j, j + Len(TextValue) - 1) = TextValue
    IN  SubSeq(text, i + Len(TextValue), Len(text))

\* `text` ends with `tail`
C20_EndsWith(text, tail) ==
    /\ Len(tail) <= Len(text)
    /\ SubSeq(text, Len(text) - Len(tail) + 1, Len(text)) = tail

\* C20: for every key among password, passwd, pwd, token, access_token,
\* api_key and secret, in either letter case, written as 'key = value',
\* 'key: value' or 'key is value', the result of maskString holds
\* '***MASKED***' in the place of the value, the value no longer appears in
\* it, and the text after the value is as it was.
C20_ValueMasked ==
    strCall.fn = "maskString" =>
        /\ ~C20_Includes(strCall.output, TextValue)
        /\ C20_EndsWith(strCall.output,
                        MaskedText \o C20_Rest(strCall.input))

(***************************************************************************)
(* Properties of the configuration.                                        *)
(***************************************************************************)
\* the default of LOG_MASK_FIELDS that the README documents
C21_DefaultFields ==
    {<<"p", "a", "s", "s", "w", "o", "r", "d">>,
     <<"p", "a", "s", "s", "w", "d">>, <<"t", "o", "k", "e", "n">>,
     <<"a", "u", "t", "h", "o", "r", "i", "z", "a", "t", "i", "o", "n">>,
     <<"s", "e", "c", "r", "e", "t">>, <<"k", "e", "y">>,
     <<"a", "p", "i", "k", "e", "y">>, <<"a", "p", "i", "_", "k", "e", "y">>}

\* C21 (checked under SpecMask): when LOG_MASK_FIELDS is not set, the
\* logger built from Config.getLogConfig masks with the documented default
\* field list: in every object copied by maskSensitiveData, a key has the
\* value '***MASKED***' exactly when its lowercased name contains one of
\* password, passwd, token, authorization, secret, key, apikey, api_key.
C21_DefaultListApplies ==
    (/\ maskCalls >= 1
     /\ maskFields =
          getLogConfig([LOG_LEVEL |-> "",
                        LOG_MASK_FIELDS |-> EnvUnset]).maskFields)
    => \A n \in DOMAIN heap :
          (~heap[n].arr /\ CopyOf(n) \in DOMAIN masked.out) =>
              \A i \in 1..Len(heap[n].keys) :
                  (masked.out[CopyOf(n)].vals[i] = MaskedMarker)
                  <=> \E f \in C21_DefaultFields :
                          includes(toLowerCase(heap[n].keys[i]), f)

(***************************************************************************)
(* Further properties of executeWithRetry (checked under Spec).            *)
(***************************************************************************)
\* a step that invokes the closure: it is the first attempt of an idle
\* invocation, or the invocation was suspended in sleep(delay), the attempt
\* before has settled with a retryable failure, one delay was taken for
\* each attempt made so far and the timer that fired was set to the latest
C22_Step ==
    calls' # calls =>
        /\ calls' = calls + 1
        /\ pc' = "calling"
        /\ \/ pc = "idle" /\ calls = 0
           \/ /\ pc = "sleeping"
              /\ RaisedObject
              /\ shouldRetry(raised)
              /\ Len(delays) = calls
              /\ timer = delays[calls]
              /\ timer = calculateDelay(calls)

\* C22: within one executeWithRetry invocation attempts are strictly
\* sequential: attempt k+1 starts only after attempt k has settled with a
\* retryable failure and the delay computed for k has elapsed; no attempt
\* starts while another is in flight, and the invocation is suspended only
\* in the operation itself and in the delay between attempts.
C22_Sequential == [][C22_Step]_vars

\* C22 witness: the third attempt is in flight after two delays
C22_Witness ==
    pc = "calling" /\ calls = 3 /\ Len(delays) = 2 /\ attempt = 3

(***************************************************************************)
(* Further properties of maskSensitiveData (checked under SpecMask).       *)
(***************************************************************************)
RECURSIVE C23_Tree(_, _, _)
\* the value v, reached at nesting depth `depth` through the nodes of
\* `path`, is acyclic and lies within the depth ceiling with all it holds
C23_Tree(v, path, depth) ==
    /\ depth <= MaxDepth
    /\ v.t = "ref" =>
          /\ v.n \notin path
          /\ \A i \in 1..Len(heap[v.n].vals) :
                C23_Tree(heap[v.n].vals[i], path \cup {v.n}, depth + 1)

RECURSIVE C23_Copy(_, _)
\* the output value o is the copy of the input value v: a primitive or a
\* Date is the same value, an object or array is a new node with the same
\* keys and as many entries, each the redaction marker under a matching key
\* and the copy of the input's entry otherwise
C23_Copy(v, o) ==
    IF v.t # "ref" THEN o = v
    ELSE /\ o.t = "ref"
         /\ o.n \in DOMAIN masked.out
         /\ o.n \notin DOMAIN heap
         /\ LET node == heap[v.n]
                copy == masked.out[o.n]
            IN  /\ copy.arr = node.arr
                /\ copy.keys = node.keys
                /\ Len(copy.vals) = Len(node.vals)
                /\ \A i \in 1..Len(node.vals) :
                      IF ~node.arr /\ C10_Matches(node.keys[i])
                      THEN copy.vals[i] = MaskedMarker
                      ELSE C23_Copy(node.vals[i], copy.vals[i])

\* C23: for every acyclic input within the depth ceiling, maskSensitiveData
\* returns a structurally equivalent copy: the same keys and array lengths
\* at every position, primitives and Dates under non-matching keys
\* unchanged; an object referenced from two places without forming a cycle
\* is copied and masked at both.
C23_StructuralCopy ==
    (maskCalls >= 1 /\ C23_Tree(root, {}, 0)) => C23_Copy(root, masked.val)

\* C24: cycle tracking is scoped to one top-level maskSensitiveData call:
\* after every call, one that ends by an exception included, the set of
\* seen objects is empty again, and masking the same value once more, after
\* another value was masked in between, returns the same result as the
\* first time.
C24_TrackingScoped ==
    /\ seenObjects = {}
    /\ repeated.ended = "returned" =>
          (repeated.val = masked.val /\ repeated.out = masked.out)

\* C24 witness: a cyclic value was masked, its masked copy was masked, and
\* the value masked once more came out as it did at first, the cycle cut at
\* the same place
C24_Witness ==
    /\ maskCalls = 3
    /\ repeated.ended = "returned"
    /\ repeated.out = masked.out
    /\ \E n \in DOMAIN repeated.out :
          \E i \in 1..Len(repeated.out[n].vals) :
              repeated.out[n].vals[i] = CircularMarker

RECURSIVE C25_Cut(_, _, _)
\* the input value v reached at nesting depth `depth` and the output value o
\* at the same place: beyond the ceiling o is the depth marker whatever v
\* is, and within it the entries of a copied object or array that are not
\* redacted obey the same rule one level deeper
C25_Cut(v, o, depth) ==
    IF depth > MaxDepth THEN o = MaxDepthMarker
    ELSE (v.t = "ref" /\ o.t = "ref" /\ o.n \in DOMAIN masked.out) =>
            \A i \in 1..Len(heap[v.n].vals) :
                \/ masked.out[o.n].vals[i] = MaskedMarker
                \/ C25_Cut(heap[v.n].vals[i], masked.out[o.n].vals[i],
                           depth + 1)

RECURSIVE C25_Within(_, _)
\* the nodes that the value v, at nesting depth `depth`, holds within the
\* ceiling
C25_Within(v, depth) ==
    IF depth > MaxDepth \/ v.t # "ref" THEN {}
    ELSE {v.n} \cup UNION {C25_Within(heap[v.n].vals[i], depth + 1) :
                              i \in 1..Len(heap[v.n].vals)}

\* C25: maskSensitiveData bounds its recursion at depth 10: a value reached
\* at a depth greater than 10, be it an object, an array or a primitive, is
\* replaced by '[Max Depth Reached]', and nothing that lies only beyond the
\* ceiling is copied into the output.
C25_DepthBounded ==
    maskCalls = 1 =>
        /\ C25_Cut(root, masked.val, 0)
        /\ \A n \in DOMAIN heap :
              CopyOf(n) \in DOMAIN masked.out => n \in C25_Within(root, 0)

\* C25 witness: the object at depth 10, below ten nested arrays, is copied
\* and the string and the object it holds at depth 11 are both cut
C25_Witness ==
    /\ maskCalls = 1
    /\ Len(heap) = MaxDepth + 2
    /\ heap[1].arr
    /\ heap[MaxDepth + 1] =
          ObjectNode(<<Key_id, Key_userpwd2>>,
                     <<Str("s3cr3t"), Ref(MaxDepth + 2)>>)
    /\ maskFields = <<<<"t", "o", "k", "e", "n">>, <<"P", "W", "D">>>>
    /\ masked.out[CopyOf(MaxDepth + 1)].vals
          = <<MaxDepthMarker, MaskedMarker>>
    /\ CopyOf(MaxDepth + 2) \notin DOMAIN masked.out

(***************************************************************************)
(* Further properties of the pure functions (checked under SpecPure).      *)
(***************************************************************************)
\* C26: getExitCode maps the error type 'success' to 0, 'error' to 1,
\* 'auth_error' to 2, 'network_error' to 3, and any other type to 1.
C26_ExitCodeTable ==
    probe.fn = "getExitCode" =>
        probe.next = CASE probe.error.message = "success" -> 0
                       [] probe.error.message = "error" -> 1
                       [] probe.error.message = "auth_error" -> 2
                       [] probe.error.message = "network_error" -> 3
                       [] OTHER -> 1

(***************************************************************************)
(* More properties of executeWithRetry (checked under Spec).               *)
(***************************************************************************)
\* the state of an invocation that has returned: the value is that of the
\* latest attempt, which is within maxRetries; one delay was taken before
\* each attempt but the first; the error log file is empty and the console
\* holds retry warnings only, one for each failed attempt when warnings
\* pass the threshold of the logger
C27_Returned ==
    pc = "returned" =>
        /\ outcome.tag = "value"
        /\ outcome.id = calls
        /\ calls >= 1
        /\ calls <= AllowedAttempts
        /\ Len(delays) = calls - 1
        /\ errorLog = <<>>
        /\ \A i \in 1..Len(console) :
              /\ console[i].level = "warn"
              /\ console[i].data.kind = "retry"
              /\ console[i].data.attempt = i
        /\ Len(console) = IF shouldLog("warn") THEN calls - 1 ELSE 0

\* C27: when attempt k of executeWithRetry resolves (after k-1 retryable
\* failures, k <= maxRetries), the invocation returns that attempt's value,
\* makes no further attempt and takes no further delay, and writes no
\* error-level entry and nothing to the error log file; the only entries it
\* has logged are the warnings of the k-1 retries.
C27_ResolveEndsQuietly ==
    /\ []C27_Returned
    /\ [][pc = "returned" =>
            UNCHANGED <<pc, calls, delays, outcome, console, errorLog>>]_vars

\* C27 witness: the third attempt resolved after two retries were logged
C27_Witness ==
    /\ pc = "returned"
    /\ calls = 3
    /\ outcome.id = 3
    /\ Len(console) = 2
    /\ delays = <<1000, 2000>>

\* the failure raised by an attempt, as classifyError and shouldRetry see
\* it: exit code 3 goes with retryable, exit code 2 with not retryable, and
\* after a failure of exit code 2 the invocation has thrown that failure
C28_Agree ==
    (calls >= 1 /\ raised.tag = "object") =>
        /\ classifyError(raised).code = 3 => shouldRetry(raised)
        /\ classifyError(raised).code = 2 =>
              /\ ~shouldRetry(raised)
              /\ raised.hasResponse
              /\ raised.status \in {401, 403}
              /\ pc = "thrown"
              /\ outcome = raised
              /\ raised.id = calls

\* C28: shouldRetry and classifyError agree on every failure: a failure
\* classified with exit code 3 (network) is always retryable and a failure
\* classified with exit code 2 (HTTP 401 or 403) is never retryable, so
\* executeWithRetry does not invoke the operation again after an
\* authentication or authorization failure.
C28_AuthNeverRetried ==
    /\ []C28_Agree
    /\ [][(raised.tag = "object" /\ classifyError(raised).code = 2)
              => calls' = calls]_vars

\* C28 witness: the second attempt, made after a network failure, failed
\* with HTTP 403 and ended the invocation with a retry still left
C28_Witness ==
    /\ pc = "thrown"
    /\ calls = 2
    /\ config.maxRetries = Num(3)
    /\ raised.code = ""
    /\ raised.hasResponse
    /\ raised.status = 403
    /\ classifyError(raised).code = 2
    /\ Len(delays) = 1

\* C29 (checked under SpecLive): if every attempt of the operation settles
\* in the end and every timer set between attempts fires in the end, an
\* executeWithRetry invocation that was started terminates, by returning a
\* value or by throwing, after at most maxRetries attempts and at most
\* maxRetries - 1 delays (none of either when maxRetries allows no
\* attempt).
C29_Terminates ==
    /\ (pc # "idle") ~> Terminal
    /\ [](Terminal =>
            /\ pc \in {"returned", "thrown"}
            /\ calls <= AllowedAttempts
            /\ Len(delays) <= calls
            /\ Len(delays) + 1 <= AllowedAttempts \/ Len(delays) = 0)

\* C29 witness: an invocation that ended after maxRetries = 3 attempts and
\* two delays
C29_Witness ==
    /\ pc = "thrown"
    /\ config.maxRetries = Num(3)
    /\ calls = 3
    /\ Len(delays) = 2
    /\ shouldRetry(raised)


\* C30: for every retry configuration getRetryConfig produces (MAX_RETRIES 0,
\* negative or not a number included), an invocation that has ended has
\* called the operation at least once, and it ended by returning the
\* operation's value or by throwing the error the operation raised (the
\* operation raising objects, not null or undefined).
C30_InvokesAndEndsProperly ==
    (Terminal /\ (calls = 0 \/ pc = "returned" \/ RaisedObject)) =>
        /\ calls >= 1
        /\ \/ pc = "returned" /\ outcome.tag = "value"
           \/ pc = "thrown" /\ outcome = raised

====
